---- MODULE Spec2Model ----
(***************************************************************************)
(* Arbok: the symbol store (nodes / edges with foreign keys), the symbol   *)
(* extractor and relationship resolver over syntax trees, the indexing     *)
(* orchestrator arbokInit and the change watcher with its debounced        *)
(* Memory Bank regeneration.                                               *)
(*                                                                         *)
(* A file's content is its text; parse gives the syntax tree the grammar   *)
(* yields for each text (tree-sitter itself is an external library).       *)
(* uuidv4 ids are kept up to renaming: a fresh id is the declaration or    *)
(* relationship it was made for plus the least copy number not in use.     *)
(***************************************************************************)
EXTENDS Integers, Sequences, FiniteSets, TLC

\* ------------------------------------------------------------------ bounds
\* the most rows of one table that stem from the same declaration / relationship
\* (caps the size of the store)
MaxCopies == 2
\* longest batch a direct caller of insertNodes / insertEdges passes
MaxBatch == 2

\* --------------------------------------------------------- program constants
MEMORY_BANK_UPDATE_THRESHOLD == 5

NodeKinds == {"function", "class", "variable", "interface", "method", "type_alias", "enum"}
EdgeRelations == {"imports", "calls", "extends", "implements"}

\* ------------------------------------------------------------- file system
\* project roots a tool call may name; "" is the unset PROJECT_PATH
Roots == {"/p", "/q"}
NoPath == ""

AbsFile(root, rel) == [root |-> root, rel |-> rel]

\* the files that can exist on disk
AllFiles == {AbsFile("/p", "a.ts"), AbsFile("/p", "b.ts"), AbsFile("/p", "n.go")}

\* path.extname
extname(rel) ==
  CASE rel = "a.ts" -> ".ts"
    [] rel = "b.ts" -> ".ts"
    [] rel = "../p/a.ts" -> ".ts"
    [] rel = "../p/b.ts" -> ".ts"
    [] rel = "../q/a.ts" -> ".ts"
    [] rel = "p/a.ts" -> ".ts"
    [] rel = "p/b.ts" -> ".ts"
    [] rel = "q/a.ts" -> ".ts"
    [] rel = "m.py" -> ".py"
    [] rel = "n.go" -> ".go"
    [] rel = "../p/n.go" -> ".go"
    [] rel = "p/n.go" -> ".go"
    [] OTHER -> ""

\* path.relative(from, to) for the roots and files above; with from = "" the
\* result is relative to the process working directory (taken as "/")
relative(from, f) ==
  IF from = f.root THEN f.rel
  ELSE IF from = NoPath THEN
    (CASE f.root = "/p" /\ f.rel = "a.ts" -> "p/a.ts"
       [] f.root = "/p" /\ f.rel = "b.ts" -> "p/b.ts"
       [] f.root = "/p" /\ f.rel = "n.go" -> "p/n.go"
       [] OTHER -> "q/a.ts")
  ELSE
    (CASE f.root = "/p" /\ f.rel = "a.ts" -> "../p/a.ts"
       [] f.root = "/p" /\ f.rel = "b.ts" -> "../p/b.ts"
       [] f.root = "/p" /\ f.rel = "n.go" -> "../p/n.go"
       [] OTHER -> "../q/a.ts")

\* every value the file_path column takes, in SQLite's BINARY collation order
PathOrder == <<"../p/a.ts", "../p/b.ts", "../p/n.go", "../q/a.ts", "a.ts", "b.ts", "m.py",
               "n.go", "p/a.ts", "p/b.ts", "p/n.go", "q/a.ts">>

PathRank(p) == CHOOSE i \in 1..Len(PathOrder) : PathOrder[i] = p

\* the scan-only extensions taken for supported ones
isSupportedExtensionWithScanOnly(ext) ==
  ext \in {".ts", ".tsx", ".js", ".jsx", ".py", ".go", ".rs"}

isSupportedExtension(ext) == ext \in {".ts", ".tsx", ".js", ".jsx", ".py"}

\* ------------------------------------------------------------ syntax trees
\* a syntax node: its type, its text (identifiers, dotted names, comments and
\* strings only), its start row and its children
T(type, text, row, children) == [type |-> type, text |-> text, row |-> row, children |-> children]
Leaf(type, row) == T(type, "", row, <<>>)
Ident(type, text, row) == T(type, text, row, <<>>)
NoNode == [type |-> "<none>", text |-> "", row |-> 0, children |-> <<>>]

\* export class <name> {}   /  class <name> {}
ClassDecl(name, row, heritage) ==
  T("class_declaration", "", row,
    <<Leaf("class", row), Ident("type_identifier", name, row)>> \o heritage \o <<Leaf("class_body", row)>>)
Exported(decl, row) == T("export_statement", "", row, <<Leaf("export", row), decl>>)
ExtendsClause(name, row) ==
  <<T("class_heritage", "", row,
      <<T("extends_clause", "", row, <<Leaf("extends", row), Ident("identifier", name, row)>>)>>)>>
FuncDecl(name, row) ==
  T("function_declaration", "", row,
    <<Leaf("function", row), Ident("identifier", name, row), Leaf("formal_parameters", row),
      Leaf("statement_block", row)>>)
InterfaceDecl(name, row) ==
  T("interface_declaration", "", row,
    <<Leaf("interface", row), Ident("type_identifier", name, row), Leaf("interface_body", row)>>)
\* import { <name> } from '...'
ImportStmt(name, row) ==
  T("import_statement", "", row,
    <<Leaf("import", row),
      T("import_clause", "", row,
        <<T("named_imports", "", row,
            <<T("import_specifier", "", row, <<Ident("identifier", name, row)>>)>>)>>),
      Leaf("from", row), Leaf("string", row)>>)
Program(stmts) == T("program", "", 0, stmts)
\* a comment; its text is the text of the source between its start and end index
Comment(text, row) == T("comment", text, row, <<>>)
\* class <name> { <method>() {} }: the name of a method is a property_identifier
ClassWithMethod(name, method, row) ==
  T("class_declaration", "", row,
    <<Leaf("class", row), Ident("type_identifier", name, row),
      T("class_body", "", row,
        <<T("method_definition", "", row,
            <<Ident("property_identifier", method, row), Leaf("formal_parameters", row),
              Leaf("statement_block", row)>>)>>)>>)
\* const <name> = () => {}
LexicalDecl(name, row) ==
  T("lexical_declaration", "", row,
    <<Leaf("const", row),
      T("variable_declarator", "", row,
        <<Ident("identifier", name, row), Leaf("=", row), Leaf("arrow_function", row)>>)>>)
\* a statement that declares nothing
ExprStmt(row) == T("expression_statement", "", row, <<Leaf("call_expression", row)>>)

\* Python: def <name>(): <body>  /  class <name>: <body>; docstring "" is no docstring
PyBlock(docstring, row) ==
  T("block", "", row,
    IF docstring = "" THEN <<Leaf("pass_statement", row)>>
    ELSE <<T("expression_statement", "", row, <<T("string", docstring, row, <<>>)>>),
           Leaf("pass_statement", row)>>)
PyFunc(name, docstring, row) ==
  T("function_definition", "", row,
    <<Leaf("def", row), Ident("identifier", name, row), Leaf("parameters", row),
      Leaf(":", row), PyBlock(docstring, row + 1)>>)
PyClass(name, docstring, row) ==
  T("class_definition", "", row,
    <<Leaf("class", row), Ident("identifier", name, row), Leaf(":", row),
      PyBlock(docstring, row + 1)>>)
\* @decorator on the line before a def or a class
Decorated(definition, row) ==
  T("decorated_definition", "", row, <<Leaf("decorator", row), definition>>)
\* from module import <name>
PyImportFrom(name, row) ==
  T("import_from_statement", "", row,
    <<Leaf("from", row), T("dotted_name", "module", row, <<Ident("identifier", "module", row)>>),
      Leaf("import", row), T("dotted_name", name, row, <<Ident("identifier", name, row)>>)>>)
\* import <name>
PyImport(name, row) ==
  T("import_statement", "", row,
    <<Leaf("import", row), T("dotted_name", name, row, <<Ident("identifier", name, row)>>)>>)
\* class <name>(<base>): pass
PySubclass(name, base, row) ==
  T("class_definition", "", row,
    <<Leaf("class", row), Ident("identifier", name, row),
      T("argument_list", "", row, <<Leaf("(", row), Ident("identifier", base, row), Leaf(")", row)>>),
      Leaf(":", row), PyBlock("", row + 1)>>)
Module(stmts) == T("module", "", 0, stmts)

\* the texts the files take in the model
\* a.ts of the inheritance scenario
SrcBase == "export class Base {}"
\* b.ts of the inheritance scenario
SrcChild == "export class Child extends Base {}"
SrcFoo == "export function foo() {}"
SrcImportFoo == "import { foo } from './a';\nexport function bar() {}"
SrcThree == "export function foo() {}\nexport class Base {}\ninterface I {}"
\* a file that declares nothing
SrcNoDecl == "// nothing here"
\* what a read of a path yields when the file does not exist (readFileSync throws)
Missing == "<missing>"
\* a file that exists and that the process may not read (readFileSync throws)
Unreadable == "<unreadable>"
\* a text on which parser.parse throws
Unparsable == "<unparsable>"
\* readFileSync(path, 'utf-8') throws
readFileSyncThrows(content) == content \in {Missing, Unreadable}

\* parser.parse(content): the syntax tree tree-sitter builds for each text
parse(content) ==
  CASE content = SrcBase -> Program(<<Exported(ClassDecl("Base", 0, <<>>), 0)>>)
    [] content = SrcChild ->
         Program(<<Exported(ClassDecl("Child", 0, ExtendsClause("Base", 0)), 0)>>)
    [] content = SrcFoo -> Program(<<Exported(FuncDecl("foo", 0), 0)>>)
    [] content = SrcImportFoo ->
         Program(<<ImportStmt("foo", 0), Exported(FuncDecl("bar", 1), 1)>>)
    [] content = SrcThree ->
         Program(<<Exported(FuncDecl("foo", 0), 0), Exported(ClassDecl("Base", 1, <<>>), 1),
                   InterfaceDecl("I", 2)>>)
    [] content = Unparsable -> NoNode
    [] content = SrcNoDecl -> Program(<<>>)
    [] OTHER -> Program(<<>>)

\* the contents each file takes in the model
ContentsOf(f) ==
  CASE f = AbsFile("/p", "a.ts") -> {SrcBase, SrcThree}
    [] f = AbsFile("/p", "b.ts") -> {Missing, SrcChild, SrcImportFoo}
    [] OTHER -> {SrcFoo}

AllContents == UNION {ContentsOf(f) : f \in AllFiles}

\* ---------------------------------------------------------- symbol extractor
isNameType(t) == t \in {"identifier", "type_identifier"}

\* first child that is an identifier / type_identifier, NoNode when there is none
getNameNode(node) ==
  LET idx == {i \in 1..Len(node.children) : isNameType(node.children[i].type)}
  IN IF idx = {} THEN NoNode
     ELSE node.children[CHOOSE i \in idx : \A j \in idx : i <= j]

hasExportModifier(node, parent) ==
  IF parent = NoNode THEN FALSE
  ELSE IF parent.type = "export_statement" THEN TRUE
  ELSE \E i \in 1..Len(parent.children) :
         /\ parent.children[i].row < node.row
         /\ parent.children[i].type = "export"

\* the characters of the comment texts of the model and of the doc-comment markers
CommentChars(text) ==
  CASE text = "/** d */" -> <<47, 42, 42, 32, 100, 32, 42, 47>>
    [] text = "/* b */" -> <<47, 42, 32, 98, 32, 42, 47>>
    [] text = "// n" -> <<47, 47, 32, 110>>
    [] text = "/**" -> <<47, 42, 42>>
    [] text = "\"\"\"" -> <<34, 34, 34>>
    [] text = "'''" -> <<39, 39, 39>>

startsWith(text, prefix) ==
  /\ Len(prefix) <= Len(text)
  /\ SubSeq(text, 1, Len(prefix)) = prefix

isDocCommentText(text) ==
  \/ startsWith(CommentChars(text), CommentChars("/**"))
  \/ startsWith(CommentChars(text), CommentChars("\"\"\""))
  \/ startsWith(CommentChars(text), CommentChars("'''"))

\* doc_comment of a declaration without one
NoDoc == "null"

\* getDocComment for the at-th child of parent, from its i-th sibling backwards
\* (no comment text of the model has white space for trim() to remove)
RECURSIVE getDocCommentFrom(_, _)
getDocCommentFrom(parent, i) ==
  IF i < 1 THEN NoDoc
  ELSE IF parent.children[i].type = "comment" /\ isDocCommentText(parent.children[i].text)
    THEN parent.children[i].text
  ELSE getDocCommentFrom(parent, i - 1)

\* the same, looking at the nearest preceding sibling only
getDocCommentNearest(parent, at) ==
  IF parent = NoNode \/ at <= 1 THEN NoDoc
  ELSE IF parent.children[at - 1].type = "comment"
          /\ isDocCommentText(parent.children[at - 1].text)
    THEN parent.children[at - 1].text
  ELSE NoDoc

getDocComment(parent, at) ==
  IF parent = NoNode THEN NoDoc ELSE getDocCommentFrom(parent, at - 1)

\* the record pushed by extractFunction / extractClass / ... (id assigned later)
Declared(node, filePath, kind, exported, docComment) ==
  LET nameNode == getNameNode(node)
  IN IF nameNode = NoNode THEN <<>>
     ELSE <<[file_path |-> filePath, name |-> nameNode.text, kind |-> kind,
             start_line |-> node.row + 1, exported |-> exported,
             doc_comment |-> docComment]>>

RECURSIVE extractVariableDeclaration(_, _, _, _, _)
extractVariableDeclaration(node, i, filePath, exported, docComment) ==
  IF i > Len(node.children) THEN <<>>
  ELSE LET child == node.children[i]
           hasInitializer == \E j \in 1..Len(child.children) :
                               child.children[j].type \in {"arrow_function", "function"}
           own == IF child.type = "variable_declarator" /\ hasInitializer
                  THEN Declared(child, filePath, "variable", exported, docComment)
                  ELSE <<>>
       IN own \o extractVariableDeclaration(node, i + 1, filePath, exported, docComment)

\* node is the at-th child of parent (the root: parent NoNode, at 0)
RECURSIVE extractTypeScriptNodes(_, _, _, _)
RECURSIVE extractTypeScriptChildren(_, _, _)
extractTypeScriptNodes(node, parent, at, filePath) ==
  LET isExported == hasExportModifier(node, parent)
      doc == getDocComment(parent, at)
      own ==
        CASE node.type = "function_declaration" ->
               Declared(node, filePath, "function", isExported, doc)
          [] node.type = "class_declaration" ->
               Declared(node, filePath, "class", isExported, doc)
          [] node.type = "interface_declaration" ->
               Declared(node, filePath, "interface", isExported, doc)
          [] node.type = "type_alias_declaration" ->
               Declared(node, filePath, "type_alias", isExported, doc)
          [] node.type = "enum_declaration" ->
               Declared(node, filePath, "enum", isExported, doc)
          [] node.type \in {"lexical_declaration", "variable_declaration"} ->
               extractVariableDeclaration(node, 1, filePath, isExported, doc)
          [] node.type = "method_definition" -> Declared(node, filePath, "method", FALSE, doc)
          [] OTHER -> <<>>
  IN own \o extractTypeScriptChildren(node, 1, filePath)

extractTypeScriptChildren(node, i, filePath) ==
  IF i > Len(node.children) THEN <<>>
  ELSE extractTypeScriptNodes(node.children[i], node, i, filePath)
         \o extractTypeScriptChildren(node, i + 1, filePath)

\* node.childForFieldName(name), the first child of that field: the name of a
\* Python definition is its identifier child, its body its block child, the
\* superclasses of a class its argument_list child; the names of a from-import
\* are the dotted names after the import keyword
childForFieldName(node, field) ==
  LET type == CASE field = "name" /\ node.type = "import_from_statement" -> "dotted_name"
                [] field = "name" -> "identifier"
                [] field = "superclasses" -> "argument_list"
                [] OTHER -> "block"
      keyword == {i \in 1..Len(node.children) :
                    node.type = "import_from_statement" /\ node.children[i].type = "import"}
      idx == {i \in 1..Len(node.children) :
                node.children[i].type = type /\ \A k \in keyword : k < i}
  IN IF idx = {} THEN NoNode
     ELSE node.children[CHOOSE i \in idx : \A j \in idx : i <= j]

\* the docstring: the string that is the first statement of the body
getPythonDocstring(node) ==
  LET body == childForFieldName(node, "body")
  IN IF body = NoNode \/ Len(body.children) = 0 THEN NoDoc
     ELSE LET child == body.children[1]
          IN IF /\ child.type = "expression_statement"
                /\ Len(child.children) > 0
                /\ child.children[1].type = "string"
             THEN child.children[1].text
             ELSE NoDoc

\* the record pushed by extractPythonFunction / extractPythonClass
PythonDeclared(node, filePath, kind) ==
  LET nameNode == childForFieldName(node, "name")
  IN IF nameNode = NoNode THEN <<>>
     ELSE <<[file_path |-> filePath, name |-> nameNode.text, kind |-> kind,
             start_line |-> node.row + 1, exported |-> TRUE,
             doc_comment |-> getPythonDocstring(node)]>>

\* the decorated_definition case ends with break, so the loop over the children
\* that follows it visits the definition again
RECURSIVE extractPythonNodes(_, _)
RECURSIVE extractPythonChildren(_, _, _)
RECURSIVE extractPythonDefinitions(_, _, _)
extractPythonNodes(node, filePath) ==
  LET own ==
        CASE node.type = "function_definition" -> PythonDeclared(node, filePath, "function")
          [] node.type = "class_definition" -> PythonDeclared(node, filePath, "class")
          [] node.type = "decorated_definition" -> extractPythonDefinitions(node, 1, filePath)
          [] OTHER -> <<>>
  IN own \o extractPythonChildren(node, 1, filePath)

\* the loop of the decorated_definition case
extractPythonDefinitions(node, i, filePath) ==
  IF i > Len(node.children) THEN <<>>
  ELSE (IF node.children[i].type \in {"function_definition", "class_definition"}
        THEN extractPythonNodes(node.children[i], filePath)
        ELSE <<>>)
         \o extractPythonDefinitions(node, i + 1, filePath)

extractPythonChildren(node, i, filePath) ==
  IF i > Len(node.children) THEN <<>>
  ELSE extractPythonNodes(node.children[i], filePath)
         \o extractPythonChildren(node, i + 1, filePath)

\* uuidv4() returns an id that no row carries.  Ids are opaque, so they are modelled
\* up to renaming: the id of a row names what the row was made for, plus the least
\* copy number n that makes it differ from every id in use.
LeastUnused(Unused(_)) == CHOOSE n \in 1..(MaxCopies + 2) : Unused(n) /\ \A m \in 1..(n - 1) : ~Unused(m)

NodeId(proto, n) == [of |-> <<proto.file_path, proto.name, proto.start_line>>, n |-> n]
uuidv4Node(proto, used) ==
  NodeId(proto, LeastUnused(LAMBDA n : NodeId(proto, n) \notin used))

RECURSIVE WithIds(_, _, _)
WithIds(protos, k, used) ==
  IF k > Len(protos) THEN <<>>
  ELSE LET id == uuidv4Node(protos[k], used)
       IN <<[id |-> id, file_path |-> protos[k].file_path, name |-> protos[k].name,
             kind |-> protos[k].kind, start_line |-> protos[k].start_line,
             exported |-> protos[k].exported, doc_comment |-> protos[k].doc_comment]>>
            \o WithIds(protos, k + 1, used \cup {id})

\* used: the ids of the rows of the nodes table
extractNodes(tree, filePath, used) ==
  IF extname(filePath) \in {".ts", ".tsx", ".js", ".jsx"}
  THEN WithIds(extractTypeScriptNodes(tree, NoNode, 0, filePath), 1, used)
  ELSE IF extname(filePath) = ".py"
  THEN WithIds(extractPythonNodes(tree, filePath), 1, used)
  ELSE <<>>

\* --------------------------------------------------------------- the store
Ids(rows) == {r.id : r \in rows}
Range(s) == {s[i] : i \in 1..Len(s)}

\* nodes table: id PRIMARY KEY, kind CHECK(kind IN (...))
NodeRowAccepted(nodeRows, row) ==
  /\ row.id \notin Ids(nodeRows)
  /\ row.kind \in NodeKinds

\* edges table: id PRIMARY KEY, relation CHECK, both FOREIGN KEYs REFERENCES nodes(id)
EdgeRowAccepted(nodeRows, edgeRows, row) ==
  /\ row.id \notin Ids(edgeRows)
  /\ row.relation \in EdgeRelations
  /\ row.source_node_id \in Ids(nodeRows)
  /\ row.target_node_id \in Ids(nodeRows)

\* the body of insertMany: stmt.run per row, stops at the first row that throws
RECURSIVE runNodeRows(_, _, _)
runNodeRows(nodeRows, batch, i) ==
  IF i > Len(batch) THEN [ok |-> TRUE, rows |-> nodeRows]
  ELSE IF NodeRowAccepted(nodeRows, batch[i])
       THEN runNodeRows(nodeRows \cup {batch[i]}, batch, i + 1)
       ELSE [ok |-> FALSE, rows |-> nodeRows]

RECURSIVE runEdgeRows(_, _, _, _)
runEdgeRows(nodeRows, edgeRows, batch, i) ==
  IF i > Len(batch) THEN [ok |-> TRUE, rows |-> edgeRows]
  ELSE IF EdgeRowAccepted(nodeRows, edgeRows, batch[i])
       THEN runEdgeRows(nodeRows, edgeRows \cup {batch[i]}, batch, i + 1)
       ELSE [ok |-> FALSE, rows |-> edgeRows]

\* insertMany called without db.transaction: the rows run before the throw stay
transactionNoRollback(before, result) == [ok |-> result.ok, rows |-> result.rows]

\* db.transaction(fn): commit when fn returns, roll back when it throws
transaction(before, result) ==
  [ok |-> result.ok, rows |-> IF result.ok THEN result.rows ELSE before]

insertNodes(nodeRows, batch) == transaction(nodeRows, runNodeRows(nodeRows, batch, 1))

insertEdges(nodeRows, edgeRows, batch) ==
  transaction(edgeRows, runEdgeRows(nodeRows, edgeRows, batch, 1))

IdsOfFile(nodeRows, filePath) == {n.id : n \in {m \in nodeRows : m.file_path = filePath}}

\* only the first of the two statements: DELETE FROM edges WHERE source_node_id IN (...)
deleteEdgesByFileSourceOnly(nodeRows, edgeRows, filePath) ==
  {e \in edgeRows : e.source_node_id \notin IdsOfFile(nodeRows, filePath)}

\* DELETE FROM edges WHERE source_node_id IN (...); then the same for target_node_id
deleteEdgesByFile(nodeRows, edgeRows, filePath) ==
  LET afterSource == {e \in edgeRows : e.source_node_id \notin IdsOfFile(nodeRows, filePath)}
  IN {e \in afterSource : e.target_node_id \notin IdsOfFile(nodeRows, filePath)}

\* DELETE FROM nodes WHERE file_path = ?  with foreign keys not enforced
deleteNodesByFileNoCascade(nodeRows, edgeRows, filePath) ==
  [nodes |-> {n \in nodeRows : n.file_path # filePath}, edges |-> edgeRows]

\* DELETE FROM nodes WHERE file_path = ?  with ON DELETE CASCADE on both edge columns
deleteNodesByFile(nodeRows, edgeRows, filePath) ==
  LET kept == {n \in nodeRows : n.file_path # filePath}
  IN [nodes |-> kept,
      edges |-> {e \in edgeRows : e.source_node_id \in Ids(kept) /\ e.target_node_id \in Ids(kept)}]

\* only the first of the two statements: DELETE FROM edges
clearDatabaseEdgesOnly(nodeRows, edgeRows) ==
  [nodes |-> nodeRows, edges |-> {e \in edgeRows : FALSE}]

\* DELETE FROM edges; DELETE FROM nodes
clearDatabase(nodeRows, edgeRows) ==
  [nodes |-> {n \in nodeRows : FALSE}, edges |-> {e \in edgeRows : FALSE}]

\* ORDER BY file_path, start_line (rows equal on both: in insertion order)
RowBefore(a, b) ==
  \/ PathRank(a.file_path) < PathRank(b.file_path)
  \/ PathRank(a.file_path) = PathRank(b.file_path) /\ a.start_line < b.start_line
  \/ PathRank(a.file_path) = PathRank(b.file_path) /\ a.start_line = b.start_line
       /\ a.id.n <= b.id.n

\* allNodes.find(pred) over getAllNodes(): the first matching row, as a set of 0 or 1
findFirst(matching) == {n \in matching : \A m \in matching : RowBefore(n, m)}

getCounts(nodeRows, edgeRows) ==
  [nodes |-> Cardinality(nodeRows), edges |-> Cardinality(edgeRows),
   files |-> Cardinality({n.file_path : n \in nodeRows})]

\* ------------------------------------------------------------ symbol search
\* the ASCII codes of the characters of the names the sources declare and of the
\* queries a client sends
Chars(str) ==
  CASE str = "" -> <<>>
    [] str = "foo" -> <<102, 111, 111>>
    [] str = "bar" -> <<98, 97, 114>>
    [] str = "baz" -> <<98, 97, 122>>
    [] str = "Base" -> <<66, 97, 115, 101>>
    [] str = "Child" -> <<67, 104, 105, 108, 100>>
    [] str = "I" -> <<73>>
    [] str = "Ba" -> <<66, 97>>
    [] str = "oo" -> <<111, 111>>
    [] str = "_" -> <<95>>

Percent == 37
Underscore == 95

\* SQLite's LIKE folds the case of ASCII letters only
Fold(code) == IF code \in 65..90 THEN code + 32 ELSE code

\* SQLite's  text LIKE pattern  with no ESCAPE: % matches any run of characters,
\* _ matches one character, any other character matches itself in either case
RECURSIVE like(_, _)
like(pattern, text) ==
  IF pattern = <<>> THEN text = <<>>
  ELSE IF Head(pattern) = Percent
    THEN like(Tail(pattern), text) \/ (text # <<>> /\ like(pattern, Tail(text)))
  ELSE IF text = <<>> THEN FALSE
  ELSE IF Head(pattern) = Underscore THEN like(Tail(pattern), Tail(text))
  ELSE Fold(Head(pattern)) = Fold(Head(text)) /\ like(Tail(pattern), Tail(text))

\* text contains part as a substring
contains(text, part) ==
  \E i \in 1..(Len(text) + 1) :
    /\ i + Len(part) - 1 <= Len(text)
    /\ SubSeq(text, i, i + Len(part) - 1) = part

\* text contains part as a substring when the case of ASCII letters is ignored
containsFolded(text, part) ==
  contains([i \in 1..Len(text) |-> Fold(text[i])], [i \in 1..Len(part) |-> Fold(part[i])])

\* the BINARY collation of the name column: a comes before b, or equals it
RECURSIVE NameLeq(_, _)
NameLeq(a, b) ==
  IF a = <<>> THEN TRUE
  ELSE IF b = <<>> THEN FALSE
  ELSE IF Head(a) # Head(b) THEN Head(a) < Head(b)
  ELSE NameLeq(Tail(a), Tail(b))

\* ORDER BY name ASC: every order of the rows that is ascending by name
RECURSIVE OrderByName(_)
OrderByName(rows) ==
  IF rows = {} THEN {<<>>}
  ELSE LET least == {r \in rows : \A s \in rows : NameLeq(Chars(r.name), Chars(s.name))}
       IN UNION {{<<r>> \o rest : rest \in OrderByName(rows \ {r})} : r \in least}

SEARCH_LIMIT == 100

\* LIMIT n
Limit(seq, n) == SubSeq(seq, 1, IF Len(seq) < n THEN Len(seq) ELSE n)

\* WHERE name LIKE '%<query>%' [AND kind = ?]; kind "" is the absent kind
SearchMatches(nodeRows, query, kind) ==
  {n \in nodeRows :
     /\ like(<<Percent>> \o Chars(query) \o <<Percent>>, Chars(n.name))
     /\ kind # "" => n.kind = kind}

\* searchNodes(query, kind): the results the statement may return
searchNodes(nodeRows, query, kind) ==
  {Limit(rows, SEARCH_LIMIT) : rows \in OrderByName(SearchMatches(nodeRows, query, kind))}

\* ----------------------------------------------------- relationship resolver
\* fileNodes.find(pred): 0 when nothing matches
FirstIndex(seq, Pred(_)) ==
  LET idx == {i \in 1..Len(seq) : Pred(seq[i])}
  IN IF idx = {} THEN 0 ELSE CHOOSE i \in idx : \A j \in idx : i <= j

EdgeProto(source, target, relation) ==
  [source_node_id |-> source, target_node_id |-> target, relation |-> relation]

\* one edge to the first matching store row, none when nothing matches
EdgeTo(sourceNode, matching, relation) ==
  IF findFirst(matching) = {} THEN <<>>
  ELSE <<EdgeProto(sourceNode.id, (CHOOSE n \in findFirst(matching) : TRUE).id, relation)>>

RECURSIVE extractImportedNames(_)
RECURSIVE extractImportedNamesOfChildren(_, _)
extractImportedNames(node) ==
  (IF node.type = "identifier" THEN <<node.text>> ELSE <<>>)
    \o extractImportedNamesOfChildren(node, 1)

extractImportedNamesOfChildren(node, i) ==
  IF i > Len(node.children) THEN <<>>
  ELSE extractImportedNames(node.children[i]) \o extractImportedNamesOfChildren(node, i + 1)

RECURSIVE importClauseNames(_, _)
importClauseNames(node, i) ==
  IF i > Len(node.children) THEN <<>>
  ELSE (IF node.children[i].type = "import_clause"
        THEN extractImportedNames(node.children[i]) ELSE <<>>)
         \o importClauseNames(node, i + 1)

RECURSIVE importEdges(_, _, _, _, _)
importEdges(importedNames, i, filePath, fileNodes, allNodes) ==
  IF i > Len(importedNames) THEN <<>>
  ELSE LET src == FirstIndex(fileNodes, LAMBDA n : n.exported)
           own == IF src = 0 THEN <<>>
                  ELSE EdgeTo(fileNodes[src],
                              {n \in allNodes : /\ n.name = importedNames[i]
                                                /\ n.exported
                                                /\ n.file_path # filePath},
                              "imports")
       IN own \o importEdges(importedNames, i + 1, filePath, fileNodes, allNodes)

resolveImport(node, filePath, fileNodes, allNodes) ==
  importEdges(importClauseNames(node, 1), 1, filePath, fileNodes, allNodes)

\* getClassName / getTypeName: text of the first identifier child, "" when none
getTypeName(node) == getNameNode(node).text
getClassName(node) == getNameNode(node).text

RECURSIVE resolveHeritageClause(_, _, _, _)
resolveHeritageClause(node, i, sourceNode, allNodes) ==
  IF i > Len(node.children) THEN <<>>
  ELSE LET child == node.children[i]
           typeName == getTypeName(child)
           own ==
             IF child.type = "extends_clause" /\ typeName # ""
             THEN EdgeTo(sourceNode, {n \in allNodes : n.name = typeName /\ n.kind = "class"},
                         "extends")
             ELSE IF child.type = "implements_clause" /\ typeName # ""
             THEN EdgeTo(sourceNode, {n \in allNodes : n.name = typeName /\ n.kind = "interface"},
                         "implements")
             ELSE <<>>
       IN own \o resolveHeritageClause(node, i + 1, sourceNode, allNodes)

RECURSIVE heritageOfChildren(_, _, _, _)
heritageOfChildren(node, i, classNode, allNodes) ==
  IF i > Len(node.children) THEN <<>>
  ELSE (IF node.children[i].type = "class_heritage"
        THEN resolveHeritageClause(node.children[i], 1, classNode, allNodes) ELSE <<>>)
         \o heritageOfChildren(node, i + 1, classNode, allNodes)

\* the base type looked up among the nodes of the class's own file only
resolveClassHeritageSameFile(node, filePath, fileNodes, allNodes) ==
  LET className == getClassName(node)
      cls == FirstIndex(fileNodes, LAMBDA n : n.name = className /\ n.kind = "class")
  IN IF className = "" \/ cls = 0 THEN <<>>
     ELSE heritageOfChildren(node, 1, fileNodes[cls], Range(fileNodes))

resolveClassHeritage(node, filePath, fileNodes, allNodes) ==
  LET className == getClassName(node)
      cls == FirstIndex(fileNodes, LAMBDA n : n.name = className /\ n.kind = "class")
  IN IF className = "" \/ cls = 0 THEN <<>>
     ELSE heritageOfChildren(node, 1, fileNodes[cls], allNodes)

RECURSIVE resolveTypeScriptEdges(_, _, _, _)
RECURSIVE resolveTypeScriptChildren(_, _, _, _, _)
resolveTypeScriptEdges(node, filePath, fileNodes, allNodes) ==
  LET own == CASE node.type = "import_statement" -> resolveImport(node, filePath, fileNodes, allNodes)
               [] node.type = "class_declaration" ->
                    resolveClassHeritage(node, filePath, fileNodes, allNodes)
               [] OTHER -> <<>>
  IN own \o resolveTypeScriptChildren(node, 1, filePath, fileNodes, allNodes)

resolveTypeScriptChildren(node, i, filePath, fileNodes, allNodes) ==
  IF i > Len(node.children) THEN <<>>
  ELSE resolveTypeScriptEdges(node.children[i], filePath, fileNodes, allNodes)
         \o resolveTypeScriptChildren(node, i + 1, filePath, fileNodes, allNodes)

extractPythonImportedNames(node) == extractImportedNames(node)

\* the names a Python import brings in: the text of each dotted name of an
\* import statement; for a from-import, the identifiers of its name field, once
\* for every child that is a dotted name or an identifier
RECURSIVE pythonImportedNames(_, _)
pythonImportedNames(node, i) ==
  IF i > Len(node.children) THEN <<>>
  ELSE LET child == node.children[i]
           nameNode == childForFieldName(node, "name")
           own == IF child.type \notin {"dotted_name", "identifier"} THEN <<>>
                  ELSE IF node.type = "import_statement" THEN <<child.text>>
                  ELSE IF nameNode # NoNode THEN extractPythonImportedNames(nameNode)
                  ELSE <<>>
       IN own \o pythonImportedNames(node, i + 1)

RECURSIVE pythonImportEdges(_, _, _, _, _)
pythonImportEdges(importedNames, i, filePath, fileNodes, allNodes) ==
  IF i > Len(importedNames) THEN <<>>
  ELSE LET src == FirstIndex(fileNodes, LAMBDA n : n.exported)
           own == IF src = 0 THEN <<>>
                  ELSE EdgeTo(fileNodes[src],
                              {n \in allNodes : /\ n.name = importedNames[i]
                                                /\ n.file_path # filePath},
                              "imports")
       IN own \o pythonImportEdges(importedNames, i + 1, filePath, fileNodes, allNodes)

resolvePythonImport(node, filePath, fileNodes, allNodes) ==
  pythonImportEdges(pythonImportedNames(node, 1), 1, filePath, fileNodes, allNodes)

RECURSIVE superclassEdges(_, _, _, _)
superclassEdges(argumentList, i, classNode, allNodes) ==
  IF i > Len(argumentList.children) THEN <<>>
  ELSE LET child == argumentList.children[i]
           own == IF child.type = "identifier"
                  THEN EdgeTo(classNode,
                              {n \in allNodes : n.name = child.text /\ n.kind = "class"},
                              "extends")
                  ELSE <<>>
       IN own \o superclassEdges(argumentList, i + 1, classNode, allNodes)

resolvePythonClassHeritage(node, filePath, fileNodes, allNodes) ==
  LET nameNode == childForFieldName(node, "name")
      cls == FirstIndex(fileNodes, LAMBDA n : n.name = nameNode.text /\ n.kind = "class")
      argumentList == childForFieldName(node, "superclasses")
  IN IF nameNode = NoNode \/ cls = 0 \/ argumentList = NoNode THEN <<>>
     ELSE superclassEdges(argumentList, 1, fileNodes[cls], allNodes)

RECURSIVE resolvePythonEdges(_, _, _, _)
RECURSIVE resolvePythonChildren(_, _, _, _, _)
resolvePythonEdges(node, filePath, fileNodes, allNodes) ==
  LET own == CASE node.type \in {"import_statement", "import_from_statement"} ->
                    resolvePythonImport(node, filePath, fileNodes, allNodes)
               [] node.type = "class_definition" ->
                    resolvePythonClassHeritage(node, filePath, fileNodes, allNodes)
               [] OTHER -> <<>>
  IN own \o resolvePythonChildren(node, 1, filePath, fileNodes, allNodes)

resolvePythonChildren(node, i, filePath, fileNodes, allNodes) ==
  IF i > Len(node.children) THEN <<>>
  ELSE resolvePythonEdges(node.children[i], filePath, fileNodes, allNodes)
         \o resolvePythonChildren(node, i + 1, filePath, fileNodes, allNodes)

EdgeId(proto, n) ==
  [of |-> <<proto.source_node_id, proto.target_node_id, proto.relation>>, n |-> n]
uuidv4Edge(proto, used) ==
  EdgeId(proto, LeastUnused(LAMBDA n : EdgeId(proto, n) \notin used))

RECURSIVE WithEdgeIds(_, _, _)
WithEdgeIds(protos, k, used) ==
  IF k > Len(protos) THEN <<>>
  ELSE LET id == uuidv4Edge(protos[k], used)
       IN <<[id |-> id, source_node_id |-> protos[k].source_node_id,
             target_node_id |-> protos[k].target_node_id, relation |-> protos[k].relation]>>
            \o WithEdgeIds(protos, k + 1, used \cup {id})

\* allNodes is what getAllNodes() returns: the rows of the nodes table;
\* used: the ids of the rows of the edges table
resolveEdges(tree, filePath, fileNodes, allNodes, used) ==
  IF extname(filePath) \in {".ts", ".tsx", ".js", ".jsx"}
  THEN WithEdgeIds(resolveTypeScriptEdges(tree, filePath, fileNodes, allNodes), 1, used)
  ELSE IF extname(filePath) = ".py"
  THEN WithEdgeIds(resolvePythonEdges(tree, filePath, fileNodes, allNodes), 1, used)
  ELSE <<>>

\* -------------------------------------------------------------------- state
VARIABLES
  configProjectPath,      \* config.projectPath (PROJECT_PATH of the environment, "" when unset)
  db,                     \* connection.ts: the root under which db was opened, NoDb when null
  dbFiles,                \* the roots r for which r/.arbok/index.db exists on disk
  disk,                   \* file |-> its text, Missing when absent
  nodes, edges,           \* the rows of the two tables
  parserInitialized,      \* parser.ts: parserInitialized
  tsParser,               \* parser.ts: tsParser is set
  watcher,                \* the root the chokidar subscription watches, NoWatcher when null
  subscriptions,          \* root |-> the number of open chokidar subscriptions on it
  watcherProjectPath,
  pendingChanges,
  memoryBankUpdateTimer,  \* "null", "armed" (timeout pending) or "fired" (stale handle:
                          \* the timeout has run or was cleared)
  timeouts,               \* the number of timeouts setTimeout scheduled that are pending
  stopping,               \* a stopWatcher call is awaiting watcher.close()
  init,                   \* the arbokInit call in flight: its position and its projectPath
  runs,                   \* the summary of the last completed index run (history)
  last                    \* the operation the last step performed and what it did

vars == <<configProjectPath, db, dbFiles, disk, nodes, edges, parserInitialized, tsParser,
          watcher, subscriptions, watcherProjectPath, pendingChanges, memoryBankUpdateTimer, timeouts,
          stopping, init, runs, last>>

NoWatcher == "null"
NoDb == "null"
NoFile == AbsFile(NoPath, NoPath)
NoCounts == [nodes |-> 0, edges |-> 0, files |-> 0]

\* what a step records about itself
\* (file: the file of a watcher event; path: the argument of a direct delete call;
\* ok: it did not throw; regen: it called arbokUpdateMemory; removed: it deleted at
\* least one edge row; result: what a call that returns a value returned; steps: the
\* store calls and the startWatcher call of an index run, in the order they were made)
Did(op, file, path, ok, regen) ==
  [op |-> op, file |-> file, path |-> path, ok |-> ok, regen |-> regen, removed |-> FALSE,
   result |-> <<>>, steps |-> <<>>]
\* one call of an index run: what was called, for which file, with how many rows
Step(op, file, rows) == [op |-> op, file |-> file, rows |-> rows]
Removing(did, edgeRows) == [did EXCEPT !.removed = (edges \ edgeRows) # {}]

\* no arbokInit call in flight; clean: nothing else ran since the call cleared the store;
\* execute: args.execute (TRUE only when the caller passed true); tool: the tool that
\* made the call; steps: the calls the run has made so far
IdleInit ==
  [pc |-> "idle", root |-> NoPath, clean |-> TRUE, execute |-> TRUE, tool |-> "none",
   steps |-> <<>>]

\* the summary of the last completed index run, kept while nothing but arbokInit has run
\* since (NoRun otherwise); again: the run before it was such a run on the same root
NoRun == [valid |-> FALSE, root |-> NoPath, stats |-> NoCounts, again |-> FALSE]

\* the store stays within the bound
WithinBound(nodeRows, edgeRows) == \A r \in nodeRows \cup edgeRows : r.id.n <= MaxCopies

\* _projectPathConfigured: set at load when PROJECT_PATH is non-empty
\* (updateProjectPath has no caller)
isProjectConfigured == configProjectPath # NoPath

\* the module state of connection.ts and the database files on disk
Connection == [db |-> db, files |-> dbFiles]

\* getDatabase of the earlier connection module: no guard, the connection is opened
\* at config.dbPath whatever it is
getDatabaseNoGuard(conn) ==
  IF conn.db # NoDb THEN [ok |-> TRUE, db |-> conn.db, files |-> conn.files]
  ELSE [ok |-> TRUE, db |-> configProjectPath, files |-> conn.files \cup {configProjectPath}]

\* getDatabase(): the open connection; else throws unless a project path has been
\* configured; else creates <projectPath>/.arbok/index.db when absent and opens it
getDatabase(conn) ==
  IF conn.db # NoDb THEN [ok |-> TRUE, db |-> conn.db, files |-> conn.files]
  ELSE IF ~isProjectConfigured \/ configProjectPath = NoPath
    THEN [ok |-> FALSE, db |-> NoDb, files |-> conn.files]
  ELSE [ok |-> TRUE, db |-> configProjectPath, files |-> conn.files \cup {configProjectPath}]

\* a query function gets its connection (all of them start with getDatabase())
DbAvailable == getDatabase(Connection).ok
UseDatabase ==
  /\ db' = getDatabase(Connection).db
  /\ dbFiles' = getDatabase(Connection).files

\* closeDatabase(): closes the open connection and forgets where it was opened
closeDatabase(conn) == [db |-> NoDb, files |-> conn.files]

\* leaves a connection open wherever it points
ensureDatabaseAtKeepsStale(conn, targetDbPath) == conn

\* ensureDatabaseAt(targetDbPath): nothing to do without a connection or with one
\* opened at the target; a connection opened elsewhere is closed (a database path
\* stands for the root whose .arbok/index.db it is)
ensureDatabaseAt(conn, targetDbPath) ==
  IF conn.db = NoDb THEN conn
  ELSE IF conn.db = targetDbPath THEN conn
  ELSE closeDatabase(conn)

\* what a call that throws yields in place of a tree
Throws == [type |-> "<throws>", text |-> "", row |-> 0, children |-> <<>>]

\* parseFile without its first check: a missing parser throws inside the try block,
\* which returns null
parseFileNoGuard(content, ext) ==
  IF ext \in {".ts", ".tsx", ".js", ".jsx"}
    THEN (IF ~tsParser THEN NoNode ELSE parse(content))
  ELSE IF ext = ".py"
    THEN (IF ~parserInitialized THEN NoNode ELSE parse(content))
  ELSE NoNode

\* parseFile: throws when the grammars are not loaded; else a tree for
\* .ts/.tsx/.js/.jsx/.py (null when parser.parse throws), null otherwise
\* (pyParser is set in the same step as parserInitialized)
parseFile(content, ext) ==
  IF ~parserInitialized THEN Throws
  ELSE IF ext \in {".ts", ".tsx", ".js", ".jsx"}
    THEN (IF ~tsParser THEN NoNode ELSE parse(content))
  ELSE IF ext = ".py"
    THEN (IF ~parserInitialized THEN NoNode ELSE parse(content))
  ELSE NoNode

Init ==
  /\ configProjectPath \in Roots \cup {NoPath}
  /\ disk \in [AllFiles -> AllContents]
  /\ \A f \in AllFiles : disk[f] \in ContentsOf(f)
  /\ nodes = {}
  /\ edges = {}
  /\ db = NoDb
  /\ dbFiles = {}
  /\ parserInitialized = FALSE
  /\ tsParser = FALSE
  /\ watcher = NoWatcher
  /\ subscriptions = [r \in Roots |-> 0]
  /\ watcherProjectPath = configProjectPath
  /\ pendingChanges = 0
  /\ memoryBankUpdateTimer = "null"
  /\ timeouts = 0
  /\ stopping = FALSE
  /\ init = IdleInit
  /\ runs = NoRun
  /\ last = Did("start", NoFile, NoPath, TRUE, FALSE)

\* ------------------------------------------------- watcher: debounced update
\* the debounce state [pending, timer, live, regen]: pendingChanges, the handle
\* memoryBankUpdateTimer, the number of pending timeouts, and whether
\* arbokUpdateMemory was called
\* clearTimeout(memoryBankUpdateTimer): a pending timeout is cancelled, a handle whose
\* timeout has run or was cleared is left alone
clearTimeout(d) ==
  IF d.timer = "armed" THEN [d EXCEPT !.timer = "fired", !.live = @ - 1] ELSE d

\* executeMemoryBankUpdate
executeMemoryBankUpdate(d) ==
  IF d.pending = 0 THEN d
  ELSE LET cleared == IF d.timer # "null" THEN clearTimeout(d) ELSE d
       IN [pending |-> 0, timer |-> "null", live |-> cleared.live, regen |-> TRUE]

\* the counter is incremented and checked against the threshold, no timer is set
scheduleMemoryBankUpdateNoTimer(pending, timer, live) ==
  LET counted == [pending |-> pending + 1, timer |-> timer, live |-> live, regen |-> FALSE]
      cleared == IF timer # "null" THEN clearTimeout(counted) ELSE counted
  IN IF cleared.pending >= MEMORY_BANK_UPDATE_THRESHOLD
     THEN executeMemoryBankUpdate(cleared)
     ELSE cleared

\* the threshold check written with > in place of >=
scheduleMemoryBankUpdateOffByOne(pending, timer, live) ==
  LET counted == [pending |-> pending + 1, timer |-> timer, live |-> live, regen |-> FALSE]
      cleared == IF timer # "null" THEN clearTimeout(counted) ELSE counted
  IN IF cleared.pending > MEMORY_BANK_UPDATE_THRESHOLD
     THEN executeMemoryBankUpdate(cleared)
     ELSE [cleared EXCEPT !.timer = "armed", !.live = @ + 1]

\* the existing timer is not cleared before a new one is set
scheduleMemoryBankUpdateNoClear(pending, timer, live) ==
  LET counted == [pending |-> pending + 1, timer |-> timer, live |-> live, regen |-> FALSE]
  IN IF counted.pending >= MEMORY_BANK_UPDATE_THRESHOLD
     THEN executeMemoryBankUpdate(counted)
     ELSE [counted EXCEPT !.timer = "armed", !.live = @ + 1]

\* pendingChanges++, clearTimeout of the existing timer, then the threshold check:
\* executeMemoryBankUpdate, or a new timeout
scheduleMemoryBankUpdate(pending, timer, live) ==
  LET counted == [pending |-> pending + 1, timer |-> timer, live |-> live, regen |-> FALSE]
      cleared == IF timer # "null" THEN clearTimeout(counted) ELSE counted
  IN IF cleared.pending >= MEMORY_BANK_UPDATE_THRESHOLD
     THEN executeMemoryBankUpdate(cleared)
     ELSE [cleared EXCEPT !.timer = "armed", !.live = @ + 1]

\* any step that is not part of arbokInit ends the quiet period after a run and
\* marks a run in flight as interleaved
Disturbed == NoRun
Interleaved == IF init.pc = "idle" THEN init ELSE [init EXCEPT !.clean = FALSE]

\* ------------------------------------------------------------ the orchestrator
Perms(S) == {s \in [1..Cardinality(S) -> S] : \A i, j \in 1..Cardinality(S) : s[i] = s[j] => i = j}

\* scanSourceFiles: the files that exist under projectPath (every AllFiles name
\* matches SOURCE_FILE_PATTERNS), in the order the glob yields them
scanSourceFiles(projectPath) ==
  Perms({f \in AllFiles : f.root = projectPath /\ disk[f] # Missing})

\* the body of the first loop once insertNodes(nodes) has run: st = [nodes,
\* allFileNodes, steps] before the file, inserted = what insertNodes left; threw
\* tells that the body ended in its catch block
firstPassInsert(st, relativePath, extracted, inserted) ==
  IF ~inserted.ok
  THEN [st |-> [st EXCEPT !.steps = Append(@, Step("insertNodes", relativePath, 0))],
        threw |-> TRUE]
  ELSE [st |-> [nodes |-> inserted.rows,
                allFileNodes |-> Append(st.allFileNodes,
                                        [filePath |-> relativePath, nodes |-> extracted]),
                steps |-> Append(st.steps,
                                 Step("insertNodes", relativePath, Len(extracted)))],
        threw |-> FALSE]

\* the body of the first loop once extractNodes(tree, relativePath) has returned
firstPassExtract(st, relativePath, extracted) ==
  IF Len(extracted) = 0 THEN [st |-> st, threw |-> FALSE]
  ELSE firstPassInsert(st, relativePath, extracted, insertNodes(st.nodes, extracted))

\* the body of the first loop for one file: tree = parseFile(content, ext)
firstPassFile(st, filePath, relativePath, tree) ==
  IF ~isSupportedExtension(extname(filePath.rel)) THEN [st |-> st, threw |-> FALSE]
  ELSE IF readFileSyncThrows(disk[filePath]) \/ tree = Throws
    THEN [st |-> st, threw |-> TRUE]
  ELSE IF tree = NoNode THEN [st |-> st, threw |-> FALSE]
  ELSE firstPassExtract(st, relativePath,
                        extractNodes(tree, relativePath, Ids(st.nodes)))

\* the first loop without its try/catch: the first file whose read, parse or insert
\* throws ends the loop
RECURSIVE firstPassNoCatch(_, _, _, _)
firstPassNoCatchNext(files, i, projectPath, st, done) ==
  IF done.threw THEN st ELSE firstPassNoCatch(files, i + 1, projectPath, done.st)
firstPassNoCatch(files, i, projectPath, st) ==
  IF i > Len(files) THEN st
  ELSE firstPassNoCatchNext(files, i, projectPath, st,
         firstPassFile(st, files[i], relative(projectPath, files[i]),
                       parseFile(disk[files[i]], extname(files[i].rel))))

\* first pass over files[i..]: st = [nodes, allFileNodes, steps]
RECURSIVE firstPass(_, _, _, _)
firstPass(files, i, projectPath, st) ==
  IF i > Len(files) THEN st
  ELSE firstPass(files, i + 1, projectPath,
         firstPassFile(st, files[i], relative(projectPath, files[i]),
                       parseFile(disk[files[i]], extname(files[i].rel))).st)

\* the body of the second loop once insertEdges(edges) has run
secondPassInsert(st, filePath, resolved, inserted) ==
  LET inserting == Append(Append(st.steps, Step("resolveEdges", filePath, 0)),
                          Step("insertEdges", filePath,
                               IF inserted.ok THEN Len(resolved) ELSE 0))
  IN IF ~inserted.ok THEN [st EXCEPT !.steps = inserting]
     ELSE [st EXCEPT !.edges = inserted.rows, !.steps = inserting]

\* the body of the second loop once resolveEdges has returned
secondPassResolve(st, filePath, resolved) ==
  IF Len(resolved) = 0
  THEN [st EXCEPT !.steps = Append(@, Step("resolveEdges", filePath, 0))]
  ELSE secondPassInsert(st, filePath, resolved,
                        insertEdges(st.nodes, st.edges, resolved))

\* the body of the second loop for one entry of allFileNodes: tree = parseFile(content, ext)
secondPassFile(st, fileData, fullPath, tree) ==
  IF readFileSyncThrows(disk[fullPath]) \/ tree = Throws THEN st
  ELSE IF tree = NoNode THEN st
  ELSE secondPassResolve(st, fileData.filePath,
                         resolveEdges(tree, fileData.filePath, fileData.nodes, st.nodes,
                                      Ids(st.edges)))

\* second pass over allFileNodes[i..]: st = [nodes, edges, steps]
RECURSIVE secondPass(_, _, _, _)
secondPass(allFileNodes, i, projectPath, st) ==
  IF i > Len(allFileNodes) THEN st
  ELSE secondPass(allFileNodes, i + 1, projectPath,
         secondPassFile(st, allFileNodes[i],
                        AbsFile(projectPath, allFileNodes[i].filePath),
                        parseFile(disk[AbsFile(projectPath, allFileNodes[i].filePath)],
                                  extname(allFileNodes[i].filePath))))

\* the second loop run over what a first loop left: p1 = [nodes, allFileNodes, steps]
secondPassAfter(p1, projectPath, edgeRows) ==
  secondPass(p1.allFileNodes, 1, projectPath,
             [nodes |-> p1.nodes, edges |-> edgeRows, steps |-> p1.steps])

\* one loop in place of the two: each file's edges resolved right after its nodes
RECURSIVE fileByFile(_, _, _, _)
fileByFile(files, i, projectPath, st) ==
  IF i > Len(files) THEN st
  ELSE fileByFile(files, i + 1, projectPath,
         secondPassAfter(firstPass(<<files[i]>>, 1, projectPath,
                                   [nodes |-> st.nodes, allFileNodes |-> <<>>,
                                    steps |-> st.steps]),
                         projectPath, st.edges))
indexFilesOneLoop(files, projectPath, nodeRows, edgeRows) ==
  fileByFile(files, 1, projectPath, [nodes |-> nodeRows, edges |-> edgeRows, steps |-> <<>>])

\* the two loops of arbokInit: every file's nodes first, then every file's edges
indexFiles(files, projectPath, nodeRows, edgeRows) ==
  secondPassAfter(firstPass(files, 1, projectPath,
                            [nodes |-> nodeRows, allFileNodes |-> <<>>, steps |-> <<>>]),
                  projectPath, edgeRows)

\* arbokInit after the grammars are loaded: clearDatabase(), then await scanSourceFiles
ClearAndScan(run) ==
  IF DbAvailable
  THEN /\ nodes' = clearDatabase(nodes, edges).nodes
       /\ edges' = clearDatabase(nodes, edges).edges
       /\ UseDatabase
       /\ init' = [run EXCEPT !.pc = "scan", !.clean = TRUE,
                               !.steps = <<Step("clearDatabase", NoPath, 0)>>]
       /\ last' = Removing(Did("init-clear", NoFile, NoPath, TRUE, FALSE), {})
  ELSE /\ UNCHANGED <<nodes, edges, db, dbFiles>>
       /\ init' = IdleInit
       /\ last' = Did("init-clear", NoFile, NoPath, FALSE, FALSE)

\* the arbokInit call a tool makes: its arguments, at its first suspension point
Run(tool, projectPath, execute) ==
  [pc |-> "parsers", root |-> projectPath, clean |-> TRUE, execute |-> execute, tool |-> tool,
   steps |-> <<>>]

\* arbokInit(args) up to its first suspension: existsSync holds for every root;
\* await initParsers(), which returns at once when the grammars are loaded
\* (args.execute is not read)
arbokInit(run) ==
  /\ IF parserInitialized
     THEN ClearAndScan(run)
     ELSE /\ init' = run
          /\ last' = Did("init-begin", NoFile, NoPath, TRUE, FALSE)
          /\ UNCHANGED <<nodes, edges, db, dbFiles>>
  /\ UNCHANGED <<configProjectPath, disk, parserInitialized, tsParser, watcher,
                 subscriptions, watcherProjectPath, pendingChanges, memoryBankUpdateTimer, timeouts,
                 stopping, runs>>

\* the tool arbok_update_index: arbokInit(args)
ArbokInitBegin(projectPath, execute) ==
  /\ init.pc = "idle"
  /\ arbokInit(Run("arbok_update_index", projectPath, execute))

\* initParsers(): Parser.init() and the TypeScript grammar are loaded, tsParser is set;
\* the Python grammar is being loaded
ArbokInitTsLoaded ==
  /\ init.pc = "parsers"
  /\ tsParser' = TRUE
  /\ init' = [init EXCEPT !.pc = "parsers-py"]
  /\ last' = Did("init-ts", NoFile, NoPath, TRUE, FALSE)
  /\ UNCHANGED <<configProjectPath, db, dbFiles, disk, nodes, edges, parserInitialized,
                 watcher, subscriptions, watcherProjectPath, pendingChanges,
                 memoryBankUpdateTimer, timeouts, stopping, runs>>

\* initParsers() resolves: pyParser is set and parserInitialized with it, arbokInit
\* goes on
ArbokInitParsersLoaded ==
  /\ init.pc = "parsers-py"
  /\ parserInitialized' = TRUE
  /\ ClearAndScan(init)
  /\ UNCHANGED <<configProjectPath, disk, tsParser, watcher, subscriptions,
                 watcherProjectPath, pendingChanges, memoryBankUpdateTimer, timeouts, stopping, runs>>

\* initParsers() rejects (at Parser.init, at either grammar): arbokInit rejects before
\* it touched the store
ArbokInitParsersFailed ==
  /\ init.pc \in {"parsers", "parsers-py"}
  /\ ~parserInitialized
  /\ init' = IdleInit
  /\ last' = Did("init-begin", NoFile, NoPath, FALSE, FALSE)
  /\ UNCHANGED <<configProjectPath, db, dbFiles, disk, nodes, edges, parserInitialized,
                 tsParser, watcher, subscriptions, watcherProjectPath, pendingChanges,
                 memoryBankUpdateTimer, timeouts, stopping, runs>>

\* the tool arbok_init_index, arbokInitIndex(args) up to its first suspension:
\* existsSync(<projectPath>/.arbok/index.db), getCounts() when it exists, the Plan
\* Mode return, else arbokInit(args)
\* (a database file that exists was created by getDatabase, so getCounts finds the
\* connection open)
ArbokInitIndexTool(projectPath, execute) ==
  /\ init.pc = "idle"
  /\ LET dbExists == projectPath \in dbFiles
         answer(status, ok) ==
           /\ last' = [Did("arbok_init_index", NoFile, projectPath, ok, FALSE)
                       EXCEPT !.result = [status |-> status, execute |-> execute]]
           /\ IF dbExists THEN UseDatabase ELSE UNCHANGED <<db, dbFiles>>
           /\ UNCHANGED <<configProjectPath, disk, nodes, edges, parserInitialized,
                          tsParser, watcher, subscriptions, watcherProjectPath,
                          pendingChanges, memoryBankUpdateTimer, timeouts, stopping, init, runs>>
     IN IF dbExists /\ ~DbAvailable THEN answer("error", FALSE)
        ELSE IF dbExists /\ getCounts(nodes, edges).nodes > 0 THEN answer("exists", TRUE)
        ELSE IF ~execute THEN answer("missing", TRUE)
        ELSE arbokInit(Run("arbok_init_index", projectPath, execute))

\* startWatcher without the check for a running watcher: a subscription is opened on
\* every call
startWatcherNoGuard(projectPath) ==
  /\ watcherProjectPath' = projectPath
  /\ watcher' = projectPath
  /\ subscriptions' = [subscriptions EXCEPT ![projectPath] = @ + 1]

\* startWatcher(projectPath): a no-op when a watcher exists; else chokidar.watch opens
\* a subscription on projectPath
startWatcher(projectPath) ==
  IF watcher # NoWatcher
  THEN UNCHANGED <<watcher, subscriptions, watcherProjectPath>>
  ELSE /\ watcherProjectPath' = projectPath
       /\ watcher' = projectPath
       /\ subscriptions' = [subscriptions EXCEPT ![projectPath] = @ + 1]

\* arbokInitIndex after its arbokInit call has returned: the post-write verification
\* throws when <projectPath>/.arbok/index.db does not exist
PostWriteVerificationFails ==
  /\ init.tool = "arbok_init_index"
  /\ init.root \notin getDatabase(Connection).files

\* the rest of arbokInit, run without suspension once the scan has returned:
\* both passes, startWatcher, getCounts
ArbokInitIndex(files) ==
  /\ init.pc = "scan"
  /\ files \in scanSourceFiles(init.root)
  /\ \E done \in {indexFiles(files, init.root, nodes, edges)} :
     \E stats \in {getCounts(done.nodes, done.edges)} :
        /\ WithinBound(done.nodes, done.edges)
        /\ nodes' = done.nodes
        /\ edges' = done.edges
        /\ runs' = IF init.clean
                   THEN [valid |-> TRUE, root |-> init.root, stats |-> stats,
                         again |-> runs.valid /\ runs.root = init.root]
                   ELSE NoRun
        /\ last' = [Did("init-done", NoFile, NoPath,
                          init.clean /\ ~PostWriteVerificationFails, FALSE)
                      EXCEPT !.result = stats,
                             !.steps = init.steps \o done.steps
                                         \o <<Step("startWatcher", init.root, 0)>>]
  /\ startWatcher(init.root)
  /\ UseDatabase
  /\ init' = IdleInit
  /\ UNCHANGED <<configProjectPath, disk, parserInitialized, tsParser, pendingChanges,
                 memoryBankUpdateTimer, timeouts, stopping>>

\* ------------------------------------------------------------- the watcher
\* what the try block of handleFileChange leaves; ok: the block reached
\* scheduleMemoryBankUpdate; queried: it reached the store calls
stored(nodeRows, edgeRows, ok) ==
  [nodes |-> nodeRows, edges |-> edgeRows, ok |-> ok, queried |-> TRUE]

\* the try block of handleFileChange once resolveEdges has returned: insertEdges
\* runs when there are edges (nodeRows, deleted.edges: the store at that point)
handleFileChangeResolved(nodeRows, deleted, resolved, insertedEdges) ==
  IF Len(resolved) = 0 THEN stored(nodeRows, deleted.edges, TRUE)
  ELSE stored(nodeRows, insertedEdges.rows, insertedEdges.ok)

\* the try block once insertNodes(nodes) has run
handleFileChangeInserted(nodeRows, deleted, resolved) ==
  handleFileChangeResolved(nodeRows, deleted, resolved,
                           insertEdges(nodeRows, deleted.edges, resolved))
handleFileChangeNodes(tree, relativePath, deleted, extracted, insertedNodes) ==
  IF ~insertedNodes.ok THEN stored(deleted.nodes, deleted.edges, FALSE)
  ELSE handleFileChangeInserted(insertedNodes.rows, deleted,
                                resolveEdges(tree, relativePath, extracted,
                                             insertedNodes.rows, Ids(deleted.edges)))

\* the try block once extractNodes has returned
handleFileChangeExtracted(tree, relativePath, deleted, extracted) ==
  IF Len(extracted) = 0 THEN stored(deleted.nodes, deleted.edges, TRUE)
  ELSE handleFileChangeNodes(tree, relativePath, deleted, extracted,
                             insertNodes(deleted.nodes, extracted))

\* the try block once deleteEdgesByFile and deleteNodesByFile have run
handleFileChangeDeleted(tree, relativePath, deleted) ==
  handleFileChangeExtracted(tree, relativePath, deleted,
                            extractNodes(tree, relativePath, Ids(deleted.nodes)))

\* handleFileChange with the two deletes moved in front of the read: a file that then
\* fails to read or parse has lost its rows
handleFileChangeDeleteFirstParsed(filePath, relativePath, tree, deleted) ==
  IF ~DbAvailable THEN stored(nodes, edges, FALSE)
  ELSE IF readFileSyncThrows(disk[filePath]) \/ tree \in {Throws, NoNode}
    THEN stored(deleted.nodes, deleted.edges, FALSE)
  ELSE handleFileChangeDeleted(tree, relativePath, deleted)
handleFileChangeStoreDeleteFirst(filePath) ==
  handleFileChangeDeleteFirstParsed(
    filePath, relative(configProjectPath, filePath),
    parseFile(disk[filePath], extname(filePath.rel)),
    deleteNodesByFile(nodes,
                      deleteEdgesByFile(nodes, edges, relative(configProjectPath, filePath)),
                      relative(configProjectPath, filePath)))

\* the try block once parseFile(content, ext) has returned
handleFileChangeParsed(filePath, relativePath, tree) ==
  IF readFileSyncThrows(disk[filePath]) \/ tree \in {Throws, NoNode}
  THEN [nodes |-> nodes, edges |-> edges, ok |-> FALSE, queried |-> FALSE]
  ELSE IF ~DbAvailable THEN stored(nodes, edges, FALSE)
  ELSE handleFileChangeDeleted(
         tree, relativePath,
         deleteNodesByFile(nodes, deleteEdgesByFile(nodes, edges, relativePath),
                           relativePath))

\* the try block of handleFileChange up to (not including) scheduleMemoryBankUpdate
handleFileChangeStore(filePath) ==
  handleFileChangeParsed(filePath, relative(configProjectPath, filePath),
                         parseFile(disk[filePath], extname(filePath.rel)))

\* the try block of handleFileDelete up to scheduleMemoryBankUpdate
handleFileDeleteStore(filePath) ==
  LET relativePath == relative(configProjectPath, filePath)
      edgesDeleted == deleteEdgesByFile(nodes, edges, relativePath)
      deleted == deleteNodesByFile(nodes, edgesDeleted, relativePath)
  IN IF ~DbAvailable THEN [nodes |-> nodes, edges |-> edges, ok |-> FALSE, queried |-> TRUE]
     ELSE [nodes |-> deleted.nodes, edges |-> deleted.edges, ok |-> TRUE, queried |-> TRUE]

\* the common tail of both handlers: store the result, then scheduleMemoryBankUpdate
\* when the try block got that far
FinishEvent(op, filePath, result) ==
  LET d == scheduleMemoryBankUpdate(pendingChanges, memoryBankUpdateTimer, timeouts)
  IN /\ WithinBound(result.nodes, result.edges)
     /\ nodes' = result.nodes
     /\ edges' = result.edges
     /\ IF result.queried THEN UseDatabase ELSE UNCHANGED <<db, dbFiles>>
     /\ IF result.ok
        THEN /\ pendingChanges' = d.pending
             /\ memoryBankUpdateTimer' = d.timer
             /\ timeouts' = d.live
             /\ last' = Removing(Did(op, filePath, NoPath, TRUE, d.regen), result.edges)
        ELSE /\ UNCHANGED <<pendingChanges, memoryBankUpdateTimer, timeouts>>
             /\ last' = Removing(Did(op, filePath, NoPath, FALSE, FALSE), result.edges)
     /\ runs' = Disturbed
     /\ init' = Interleaved

\* each open subscription on a root delivers every event for the files under it, once
Delivers(filePath) == subscriptions[filePath.root] > 0

\* on('add') / on('change'): one run of the handler
HandleFileChange(filePath) ==
  /\ Delivers(filePath)
  /\ IF ~isSupportedExtension(extname(filePath.rel))
     THEN /\ last' = Did("change", filePath, NoPath, FALSE, FALSE)
          /\ runs' = Disturbed
          /\ UNCHANGED <<nodes, edges, db, dbFiles, pendingChanges, memoryBankUpdateTimer, timeouts,
                         init>>
     ELSE FinishEvent("change", filePath, handleFileChangeStore(filePath))
  /\ UNCHANGED <<configProjectPath, disk, parserInitialized, tsParser, watcher,
                 subscriptions, watcherProjectPath, stopping>>

\* on('unlink'): one run of the handler
HandleFileDelete(filePath) ==
  /\ Delivers(filePath)
  /\ IF ~isSupportedExtension(extname(filePath.rel))
     THEN /\ last' = Did("unlink", filePath, NoPath, FALSE, FALSE)
          /\ runs' = Disturbed
          /\ UNCHANGED <<nodes, edges, db, dbFiles, pendingChanges, memoryBankUpdateTimer, timeouts,
                         init>>
     ELSE FinishEvent("unlink", filePath, handleFileDeleteStore(filePath))
  /\ UNCHANGED <<configProjectPath, disk, parserInitialized, tsParser, watcher,
                 subscriptions, watcherProjectPath, stopping>>

\* the oldest pending timeout elapses (the one the handle holds is the newest): the
\* callback runs executeMemoryBankUpdate when a change is pending
TimerFires ==
  /\ timeouts > 0
  /\ LET fired == [pending |-> pendingChanges,
                   timer |-> IF memoryBankUpdateTimer = "armed" /\ timeouts = 1
                             THEN "fired" ELSE memoryBankUpdateTimer,
                   live |-> timeouts - 1, regen |-> FALSE]
         d == IF pendingChanges > 0 THEN executeMemoryBankUpdate(fired) ELSE fired
     IN /\ pendingChanges' = d.pending
        /\ memoryBankUpdateTimer' = d.timer
        /\ timeouts' = d.live
        /\ last' = Did("timer", NoFile, NoPath, TRUE, d.regen)
  /\ UNCHANGED <<configProjectPath, db, dbFiles, disk, nodes, edges, parserInitialized,
                 tsParser, watcher, subscriptions, watcherProjectPath, stopping, init, runs>>

\* stopWatcher that leaves the debounce timer alone
stopWatcherTimerKept(timer) == timer

\* the second half of stopWatcher: clearTimeout and memoryBankUpdateTimer = null when
\* a timer handle is held
stopWatcherTimer(timer) == IF timer # "null" THEN "null" ELSE timer

\* stopWatcher has no caller in these sources; the watcher specification below lets
\* the embedding program call it
\* stopWatcher up to its await: watcher.close() has been called, the subscription
\* delivers nothing from here on
StopWatcherBegin ==
  /\ ~stopping
  /\ watcher # NoWatcher
  /\ stopping' = TRUE
  /\ subscriptions' = [subscriptions EXCEPT ![watcher] = @ - 1]
  /\ last' = Did("stop-begin", NoFile, NoPath, TRUE, FALSE)
  /\ UNCHANGED <<configProjectPath, db, dbFiles, disk, nodes, edges, parserInitialized,
                 tsParser, watcher, watcherProjectPath, pendingChanges,
                 memoryBankUpdateTimer, timeouts, init, runs>>

\* stopWatcher after the await (or from the start when no watcher exists):
\* watcher = null, then the timer is cleared
StopWatcherEnd ==
  /\ stopping \/ watcher = NoWatcher
  /\ stopping' = FALSE
  /\ watcher' = NoWatcher
  /\ memoryBankUpdateTimer' = stopWatcherTimer(memoryBankUpdateTimer)
  /\ timeouts' = IF memoryBankUpdateTimer = "armed" /\ memoryBankUpdateTimer' # "armed"
                 THEN timeouts - 1 ELSE timeouts
  /\ last' = Did("stop", NoFile, NoPath, TRUE, FALSE)
  /\ UNCHANGED <<configProjectPath, db, dbFiles, disk, nodes, edges, parserInitialized,
                 tsParser, subscriptions, watcherProjectPath, pendingChanges, init, runs>>

\* ------------------------------------------------------------ the environment
\* a file is created, rewritten or removed
EditFile(filePath, content) ==
  /\ content \in ContentsOf(filePath)
  /\ content # disk[filePath]
  /\ disk' = [disk EXCEPT ![filePath] = content]
  /\ last' = Did("edit", NoFile, NoPath, TRUE, FALSE)
  /\ runs' = Disturbed
  /\ UNCHANGED <<configProjectPath, db, dbFiles, nodes, edges, parserInitialized,
                 tsParser, watcher, subscriptions, watcherProjectPath, pendingChanges,
                 memoryBankUpdateTimer, timeouts, stopping, init>>

\* a file becomes unreadable for the process, gets a text the parser throws on, or a
\* text that declares nothing
SpoilFile(filePath, content) ==
  /\ content \in {Unreadable, Unparsable, SrcNoDecl}
  /\ isSupportedExtension(extname(filePath.rel))
  /\ content # disk[filePath]
  /\ disk' = [disk EXCEPT ![filePath] = content]
  /\ last' = Did("edit", NoFile, NoPath, TRUE, FALSE)
  /\ runs' = Disturbed
  /\ UNCHANGED <<configProjectPath, db, dbFiles, nodes, edges, parserInitialized,
                 tsParser, watcher, subscriptions, watcherProjectPath, pendingChanges,
                 memoryBankUpdateTimer, timeouts, stopping, init>>

\* ------------------------------------------- direct callers of the store API
\* the rows a caller passes: a declaration of a.ts, and one with a kind outside the
\* enumeration
CallerNode(filePath, name, kind) ==
  LET proto == [file_path |-> filePath, name |-> name, start_line |-> 1]
  IN [id |-> NodeId(proto, 1), file_path |-> filePath, name |-> name, kind |-> kind,
      start_line |-> 1, exported |-> TRUE, doc_comment |-> NoDoc]
NodeRowChoices ==
  {CallerNode("a.ts", "foo", "function"), CallerNode("a.ts", "baz", "widget")}

\* an id no node row ever has
DanglingId == NodeId([file_path |-> "a.ts", name |-> "foo", start_line |-> 1], 0)
\* the edge rows a caller passes, from the first node row to the last one: a valid row,
\* one with a relation outside the enumeration, one with a dangling target
EdgeRowChoices ==
  IF nodes = {} THEN {}
  ELSE LET src == (CHOOSE r \in nodes : \A q \in nodes : RowBefore(r, q)).id
           tgt == (CHOOSE r \in nodes : \A q \in nodes : RowBefore(q, r)).id
       IN {[id |-> EdgeId(EdgeProto(src, tgt, "calls"), 1), source_node_id |-> src,
            target_node_id |-> row[1], relation |-> row[2]] :
             row \in {<<tgt, "calls">>, <<tgt, "uses">>, <<DanglingId, "calls">>}}

Batches(rows) == UNION {[1..n -> rows] : n \in 1..MaxBatch}

StoreCallFrame ==
  /\ UseDatabase
  /\ runs' = Disturbed
  /\ init' = Interleaved
  /\ UNCHANGED <<configProjectPath, disk, parserInitialized, tsParser, watcher,
                 subscriptions, watcherProjectPath, pendingChanges, memoryBankUpdateTimer, timeouts,
                 stopping>>

CallInsertNodes(batch) ==
  /\ batch \in Batches(NodeRowChoices)
  /\ DbAvailable
  /\ nodes' = insertNodes(nodes, batch).rows
  /\ last' = Did("insertNodes", NoFile, NoPath, insertNodes(nodes, batch).ok, FALSE)
  /\ UNCHANGED edges
  /\ StoreCallFrame

CallInsertEdges(batch) ==
  /\ batch \in Batches(EdgeRowChoices)
  /\ DbAvailable
  /\ edges' = insertEdges(nodes, edges, batch).rows
  /\ last' = Did("insertEdges", NoFile, NoPath, insertEdges(nodes, edges, batch).ok, FALSE)
  /\ UNCHANGED nodes
  /\ StoreCallFrame

CallDeleteEdgesByFile(filePath) ==
  /\ DbAvailable
  /\ edges' = deleteEdgesByFile(nodes, edges, filePath)
  /\ last' = Removing(Did("deleteEdgesByFile", NoFile, filePath, TRUE, FALSE),
                       deleteEdgesByFile(nodes, edges, filePath))
  /\ UNCHANGED nodes
  /\ StoreCallFrame

CallDeleteNodesByFile(filePath) ==
  /\ DbAvailable
  /\ nodes' = deleteNodesByFile(nodes, edges, filePath).nodes
  /\ edges' = deleteNodesByFile(nodes, edges, filePath).edges
  /\ last' = Removing(Did("deleteNodesByFile", NoFile, filePath, TRUE, FALSE),
                       deleteNodesByFile(nodes, edges, filePath).edges)
  /\ StoreCallFrame

CallClearDatabase ==
  /\ DbAvailable
  /\ nodes' = clearDatabase(nodes, edges).nodes
  /\ edges' = clearDatabase(nodes, edges).edges
  /\ last' = Removing(Did("clearDatabase", NoFile, NoPath, TRUE, FALSE), {})
  /\ StoreCallFrame

\* the read-only query functions whose result the model does not keep
ReadQueries == {"getNodesByFile", "getNodeById", "getCounts"}

\* a query function called directly: its first statement, getDatabase()
CallQuery(fn) ==
  /\ fn \in ReadQueries
  /\ UseDatabase
  /\ last' = Did("getDatabase", NoFile, fn, DbAvailable, FALSE)
  /\ UNCHANGED <<configProjectPath, disk, nodes, edges, parserInitialized, tsParser,
                 watcher, subscriptions, watcherProjectPath, pendingChanges,
                 memoryBankUpdateTimer, timeouts, stopping, init, runs>>

\* the tool arbok_search_symbol: arbokSearchSymbol({query, kind})
Queries == {"", "Ba", "oo", "_"}
KindFilters == {"", "class", "function"}
CallSearchNodes(query, kind) ==
  /\ IF DbAvailable
     THEN \E rows \in searchNodes(nodes, query, kind) :
            last' = [Did("searchNodes", NoFile, query, TRUE, FALSE)
                     EXCEPT !.result = [kind |-> kind, rows |-> rows]]
     ELSE last' = Did("searchNodes", NoFile, query, FALSE, FALSE)
  /\ UseDatabase
  /\ UNCHANGED <<configProjectPath, disk, nodes, edges, parserInitialized, tsParser,
                 watcher, subscriptions, watcherProjectPath, pendingChanges,
                 memoryBankUpdateTimer, timeouts, stopping, init, runs>>

\* parseFile(content, ext) called directly
Extensions == {".ts", ".tsx", ".js", ".jsx", ".py", ".go", ".rs", ""}
CallParseFile(content, ext) ==
  /\ LET tree == parseFile(content, ext)
         returned == IF tree = Throws THEN "throws"
                     ELSE IF tree = NoNode THEN "null" ELSE "tree"
     IN last' = [Did("parseFile", NoFile, ext, tree # Throws, FALSE)
                 EXCEPT !.result = returned]
  /\ UNCHANGED <<configProjectPath, db, dbFiles, disk, nodes, edges, parserInitialized,
                 tsParser, watcher, subscriptions, watcherProjectPath, pendingChanges,
                 memoryBankUpdateTimer, timeouts, stopping, init, runs>>

\* ensureDatabaseAt(<root>/.arbok/index.db) called by the embedding program; the
\* result is where the connection was open before the call
CallEnsureDatabaseAt(root) ==
  /\ root \in Roots
  /\ db' = ensureDatabaseAt(Connection, root).db
  /\ dbFiles' = ensureDatabaseAt(Connection, root).files
  /\ last' = [Did("ensureDatabaseAt", NoFile, root, TRUE, FALSE) EXCEPT !.result = db]
  /\ UNCHANGED <<configProjectPath, disk, nodes, edges, parserInitialized, tsParser,
                 watcher, subscriptions, watcherProjectPath, pendingChanges,
                 memoryBankUpdateTimer, timeouts, stopping, init, runs>>

\* ------------------------------------------- direct callers of the extractor
\* the statements a TS/JS program of the model is made of, at a row
TsStatements(row) ==
  {Comment("/** d */", row), Comment("// n", row), ExprStmt(row),
   FuncDecl("foo", row), Exported(FuncDecl("foo", row), row),
   Exported(ClassDecl("Base", row, <<>>), row), InterfaceDecl("I", row),
   LexicalDecl("bar", row), ClassWithMethod("Base", "m", row)}

\* the statements a Python module of the model is made of, at a row (a decorated
\* definition takes two rows and its body a third)
PyStatements(row) ==
  {PyFunc("foo", "", row), PyFunc("foo", "\"\"\"d\"\"\"", row), PyClass("Base", "", row),
   Decorated(PyFunc("foo", "", row + 1), row), Decorated(PyClass("Base", "", row + 1), row),
   ExprStmt(row), PyImportFrom("foo", row)}

\* the longest program / module
MaxStatements == 3
MaxPyStatements == 2

\* the programs of n statements, statement i on row i - 1
RECURSIVE TsPrograms(_)
TsPrograms(n) ==
  IF n = 0 THEN {<<>>}
  ELSE {Append(stmts, stmt) : stmts \in TsPrograms(n - 1), stmt \in TsStatements(n - 1)}

\* the modules of n statements, statement i on row 3 * (i - 1)
RECURSIVE PyModules(_)
PyModules(n) ==
  IF n = 0 THEN {<<>>}
  ELSE {Append(stmts, stmt) : stmts \in PyModules(n - 1),
                              stmt \in PyStatements(3 * (n - 1))}

TsTrees(max) == {Program(stmts) : stmts \in UNION {TsPrograms(n) : n \in 1..max}}
PyTrees(max) == {Module(stmts) : stmts \in UNION {PyModules(n) : n \in 1..max}}

\* the rows another file, a.ts, has in the store: foo (exported function), Base
\* (exported class) and I (an interface that is not exported)
OtherRows == Range(extractNodes(parse(SrcThree), "a.ts", {}))

\* the statements of the importing TS/JS file b.ts and of the importing module m.py
TsImporting(row) ==
  {ImportStmt("foo", row), ImportStmt("I", row), ImportStmt("zed", row),
   Exported(FuncDecl("foo", row), row), Exported(FuncDecl("bar", row), row),
   FuncDecl("bar", row)}
PyImporting(row) ==
  {PyImport("foo", row), PyImportFrom("foo", row), PyImportFrom("I", row),
   PyImportFrom("zed", row), PyFunc("foo", "", row), PySubclass("Kid", "Base", row),
   ExprStmt(row)}

RECURSIVE TsImporters(_)
TsImporters(n) ==
  IF n = 0 THEN {<<>>}
  ELSE {Append(stmts, stmt) : stmts \in TsImporters(n - 1), stmt \in TsImporting(n - 1)}
RECURSIVE PyImporters(_)
PyImporters(n) ==
  IF n = 0 THEN {<<>>}
  ELSE {Append(stmts, stmt) : stmts \in PyImporters(n - 1),
                              stmt \in PyImporting(3 * (n - 1))}

TsImportingTrees(max) == {Program(stmts) : stmts \in UNION {TsImporters(n) : n \in 1..max}}
PyImportingTrees(max) == {Module(stmts) : stmts \in UNION {PyImporters(n) : n \in 1..max}}

\* resolveEdges(tree, filePath, content, fileNodes) called as its callers do: with
\* the records extractNodes returned for the file, already inserted into a store that
\* holds some of the rows of a.ts
CallResolveEdges(tree, filePath, others) ==
  /\ last.op = "start"
  /\ \/ filePath = "b.ts" /\ tree \in TsImportingTrees(MaxStatements)
     \/ filePath = "m.py" /\ tree \in PyImportingTrees(MaxPyStatements)
  /\ others \subseteq OtherRows
  /\ \E fileNodes \in {extractNodes(tree, filePath, Ids(others))} :
     \E allNodes \in {others \cup Range(fileNodes)} :
       last' = [Did("resolveEdges", NoFile, filePath, TRUE, FALSE)
                EXCEPT !.result = [tree |-> tree, fileNodes |-> fileNodes,
                                   allNodes |-> allNodes,
                                   edges |-> resolveEdges(tree, filePath, fileNodes,
                                                          allNodes, Ids(edges))]]
  /\ UNCHANGED <<configProjectPath, db, dbFiles, disk, nodes, edges, parserInitialized,
                 tsParser, watcher, subscriptions, watcherProjectPath, pendingChanges,
                 memoryBankUpdateTimer, timeouts, stopping, init, runs>>

\* extractNodes(tree, filePath, content) called on the tree of a file of that name
\* (the function is pure, so a behaviour makes one call)
CallExtractNodes(tree, filePath) ==
  /\ last.op = "start"
  /\ \/ filePath = "a.ts" /\ tree \in TsTrees(MaxStatements)
     \/ filePath = "m.py" /\ tree \in PyTrees(MaxPyStatements)
  /\ last' = [Did("extractNodes", NoFile, filePath, TRUE, FALSE)
              EXCEPT !.result = [tree |-> tree,
                                 nodes |-> extractNodes(tree, filePath, Ids(nodes))]]
  /\ UNCHANGED <<configProjectPath, db, dbFiles, disk, nodes, edges, parserInitialized,
                 tsParser, watcher, subscriptions, watcherProjectPath, pendingChanges,
                 memoryBankUpdateTimer, timeouts, stopping, init, runs>>

\* --------------------------------------------------------------- behaviours
\* the server: index runs, the watcher, the files changing underneath
Next ==
  \/ \E projectPath \in Roots : ArbokInitBegin(projectPath, TRUE)
  \/ ArbokInitTsLoaded
  \/ ArbokInitParsersLoaded
  \/ ArbokInitParsersFailed
  \/ \E files \in scanSourceFiles(init.root) : ArbokInitIndex(files)
  \/ \E filePath \in AllFiles : HandleFileChange(filePath)
  \/ \E filePath \in AllFiles : HandleFileDelete(filePath)
  \/ TimerFires
  \/ \E filePath \in AllFiles : \E content \in AllContents : EditFile(filePath, content)

Spec == Init /\ [][Next]_vars

\* the store API called directly, next to index runs and watcher events
StoreNext ==
  \/ \E batch \in Batches(NodeRowChoices) : CallInsertNodes(batch)
  \/ \E batch \in Batches(EdgeRowChoices) : CallInsertEdges(batch)
  \/ \E filePath \in {"a.ts", "b.ts"} : CallDeleteEdgesByFile(filePath)
  \/ \E filePath \in {"a.ts", "b.ts"} : CallDeleteNodesByFile(filePath)
  \/ CallClearDatabase
  \/ \E projectPath \in Roots : ArbokInitBegin(projectPath, TRUE)
  \/ ArbokInitTsLoaded
  \/ ArbokInitParsersLoaded
  \/ ArbokInitParsersFailed
  \/ \E files \in scanSourceFiles(init.root) : ArbokInitIndex(files)
  \/ \E filePath \in AllFiles : HandleFileChange(filePath)
  \/ \E filePath \in AllFiles : HandleFileDelete(filePath)

\* one project on disk, indexed under the configured project path
StoreInit ==
  /\ Init
  /\ configProjectPath = "/p"
  /\ disk[AbsFile("/p", "a.ts")] = SrcThree
  /\ disk[AbsFile("/p", "b.ts")] = SrcChild

StoreSpec == StoreInit /\ [][StoreNext]_vars

\* index runs over a project whose files change, some for the worse
IndexNext ==
  \/ \E projectPath \in Roots : ArbokInitBegin(projectPath, TRUE)
  \/ ArbokInitTsLoaded
  \/ ArbokInitParsersLoaded
  \/ ArbokInitParsersFailed
  \/ \E files \in scanSourceFiles(init.root) : ArbokInitIndex(files)
  \/ \E filePath \in AllFiles : \E content \in AllContents : EditFile(filePath, content)
  \/ \E filePath \in AllFiles : \E content \in {Unreadable, Unparsable, SrcNoDecl} :
       SpoilFile(filePath, content)

IndexInit == Init /\ configProjectPath = "/p"

IndexSpec == IndexInit /\ [][IndexNext]_vars

\* the tools and the exported functions a client calls, Plan Mode and Act Mode
ToolNext ==
  \/ \E projectPath \in Roots : \E execute \in BOOLEAN : ArbokInitBegin(projectPath, execute)
  \/ \E projectPath \in Roots : \E execute \in BOOLEAN :
       ArbokInitIndexTool(projectPath, execute)
  \/ ArbokInitTsLoaded
  \/ ArbokInitParsersLoaded
  \/ ArbokInitParsersFailed
  \/ \E files \in scanSourceFiles(init.root) : ArbokInitIndex(files)
  \/ \E fn \in ReadQueries : CallQuery(fn)
  \/ \E query \in Queries : \E kind \in KindFilters : CallSearchNodes(query, kind)
  \/ \E content \in {SrcBase, Unparsable} : \E ext \in Extensions :
       CallParseFile(content, ext)
  \/ \E root \in Roots : CallEnsureDatabaseAt(root)

\* a project with five declarations on disk; PROJECT_PATH set to it, to another
\* directory, or unset
ToolInit ==
  /\ Init
  /\ disk[AbsFile("/p", "a.ts")] = SrcThree
  /\ disk[AbsFile("/p", "b.ts")] = SrcImportFoo

ToolSpec == ToolInit /\ [][ToolNext]_vars

\* the symbol extractor applied to the trees of small programs
ExtractNext ==
  \/ \E filePath \in {"a.ts", "m.py"} :
       \E tree \in TsTrees(MaxStatements) \cup PyTrees(MaxPyStatements) :
         CallExtractNodes(tree, filePath)
  \/ \E filePath \in {"b.ts", "m.py"} :
       \E tree \in TsImportingTrees(MaxStatements) \cup PyImportingTrees(MaxPyStatements) :
         \E others \in SUBSET OtherRows : CallResolveEdges(tree, filePath, others)

ExtractInit ==
  /\ Init
  /\ configProjectPath = "/p"
  /\ disk[AbsFile("/p", "a.ts")] = SrcBase
  /\ disk[AbsFile("/p", "b.ts")] = SrcChild

ExtractSpec == ExtractInit /\ [][ExtractNext]_vars

\* the watcher next to index runs, with the embedding program stopping it
WatcherNext ==
  \/ \E projectPath \in Roots : ArbokInitBegin(projectPath, TRUE)
  \/ ArbokInitTsLoaded
  \/ ArbokInitParsersLoaded
  \/ ArbokInitParsersFailed
  \/ \E files \in scanSourceFiles(init.root) : ArbokInitIndex(files)
  \/ \E filePath \in AllFiles : HandleFileChange(filePath)
  \/ \E filePath \in AllFiles : HandleFileDelete(filePath)
  \/ TimerFires
  \/ StopWatcherBegin
  \/ StopWatcherEnd

\* the watcher over a project whose files become unreadable or unparsable
SkipNext ==
  \/ \E projectPath \in Roots : ArbokInitBegin(projectPath, TRUE)
  \/ ArbokInitTsLoaded
  \/ ArbokInitParsersLoaded
  \/ ArbokInitParsersFailed
  \/ \E files \in scanSourceFiles(init.root) : ArbokInitIndex(files)
  \/ \E filePath \in AllFiles : HandleFileChange(filePath)
  \/ \E filePath \in AllFiles : HandleFileDelete(filePath)
  \/ TimerFires
  \/ \E filePath \in AllFiles : \E content \in {Unreadable, Unparsable} :
       SpoilFile(filePath, content)

SkipInit ==
  /\ Init
  /\ configProjectPath = "/p"
  /\ disk[AbsFile("/p", "a.ts")] = SrcBase
  /\ disk[AbsFile("/p", "b.ts")] = SrcChild

SkipSpec == SkipInit /\ [][SkipNext]_vars

\* the inheritance project on disk, a project path configured
WatcherInit ==
  /\ Init
  /\ configProjectPath \in Roots
  /\ disk[AbsFile("/p", "a.ts")] = SrcBase
  /\ disk[AbsFile("/p", "b.ts")] = SrcChild

WatcherSpec == WatcherInit /\ [][WatcherNext]_vars

\* the event loop runs the callback of a timeout that stays due
WatcherLiveSpec == WatcherSpec /\ WF_vars(TimerFires)

\* =============================================================== properties
OtherFiles(nodeRows, filePath) == {n \in nodeRows : n.file_path # filePath}
NotTouching(nodeRows, edgeRows, filePath) ==
  {e \in edgeRows : /\ e.source_node_id \notin IdsOfFile(nodeRows, filePath)
                    /\ e.target_node_id \notin IdsOfFile(nodeRows, filePath)}

\* C1: in every state that direct store calls, index runs and watcher events reach,
\* every edge has a source_node_id and a target_node_id that are ids of nodes of the
\* store; in particular a delete of nodes leaves no edge that references them.
C1_ReferentialIntegrity ==
  \A e \in edges : e.source_node_id \in Ids(nodes) /\ e.target_node_id \in Ids(nodes)

\* deleteNodesByFile, called without deleteEdgesByFile before it, removed edges with
\* the nodes and left other nodes in the store
C1_CascadeHappened ==
  /\ last.op = "deleteNodesByFile"
  /\ last.removed
  /\ nodes # {}

\* no row of the batch would be rejected: ids new and pairwise distinct, kinds in
\* the enumeration
NodeBatchAcceptable(batch) ==
  \A i \in 1..Len(batch) :
    /\ batch[i].kind \in NodeKinds
    /\ batch[i].id \notin Ids(nodes)
    /\ \A j \in 1..Len(batch) : batch[j].id = batch[i].id => j = i
\* the same for edges, with both endpoints ids of nodes of the store
EdgeBatchAcceptable(batch) ==
  \A i \in 1..Len(batch) :
    /\ batch[i].relation \in EdgeRelations
    /\ batch[i].id \notin Ids(edges)
    /\ batch[i].source_node_id \in Ids(nodes)
    /\ batch[i].target_node_id \in Ids(nodes)
    /\ \A j \in 1..Len(batch) : batch[j].id = batch[i].id => j = i

\* what insertNodes / insertEdges answer for every batch a caller can pass in this state
C2_CallResults ==
  /\ \A batch \in Batches(NodeRowChoices) :
       LET r == insertNodes(nodes, batch)
       IN /\ r.ok <=> NodeBatchAcceptable(batch)
          /\ r.rows = IF r.ok THEN nodes \cup Range(batch) ELSE nodes
  /\ \A batch \in Batches(EdgeRowChoices) :
       LET r == insertEdges(nodes, edges, batch)
       IN /\ r.ok <=> EdgeBatchAcceptable(batch)
          /\ r.rows = IF r.ok THEN edges \cup Range(batch) ELSE edges

\* a bulk insert that raised an error changed neither table
C2_FailedCallStep ==
  (last'.op \in {"insertNodes", "insertEdges"} /\ ~last'.ok)
    => (nodes' = nodes /\ edges' = edges)

\* C2: insertNodes and insertEdges are all-or-nothing: a batch with a rejected row
\* (duplicate id, kind or relation outside the enumeration, an edge endpoint that is no
\* node id) raises an error and leaves nodes and edges exactly as they were; a batch
\* without one is stored whole.
C2_AllOrNothing == []C2_CallResults /\ [][C2_FailedCallStep]_vars

\* an insertEdges call has just failed on a store that holds nodes and edges
C2_FailedBatch ==
  /\ last.op = "insertEdges"
  /\ ~last.ok
  /\ nodes # {}
  /\ edges # {}

\* a delete-by-file step removes exactly the edges that touch a node of the file and,
\* for deleteNodesByFile, exactly the nodes of the file
C3_DeleteStep ==
  /\ last'.op = "deleteEdgesByFile" =>
       /\ nodes' = nodes
       /\ edges' = NotTouching(nodes, edges, last'.path)
  /\ last'.op = "deleteNodesByFile" =>
       /\ nodes' = OtherFiles(nodes, last'.path)
       /\ edges' = NotTouching(nodes, edges, last'.path)

\* the two calls in sequence, as the watcher makes them, on the current store
C3_DeleteSequence ==
  \A filePath \in {"a.ts", "b.ts"} :
    LET deleted == deleteNodesByFile(nodes, deleteEdgesByFile(nodes, edges, filePath), filePath)
    IN /\ deleted.nodes = OtherFiles(nodes, filePath)
       /\ deleted.edges = NotTouching(nodes, edges, filePath)

\* C3: deleteEdgesByFile followed by deleteNodesByFile for path F removes exactly the
\* nodes whose file_path is F and exactly the edges whose source or target is one of
\* them; the nodes of other files and the edges that touch no node of F stay.
C3_DeleteExactly == []C3_DeleteSequence /\ [][C3_DeleteStep]_vars

\* a delete for a file removed edges and left nodes of another file and an edge
\* between them in the store
C3_DeletedSomeKeptSome ==
  /\ last.op = "deleteNodesByFile"
  /\ last.removed
  /\ nodes # {}
  /\ edges # {}

FileA == AbsFile("/p", "a.ts")
FileB == AbsFile("/p", "b.ts")
FileGo == AbsFile("/p", "n.go")

\* the step is the return of an arbokInit call (both passes, startWatcher, getCounts)
ArbokInitReturns == init.pc = "scan" /\ init'.pc = "idle"
\* the step is a watcher handler that ran to its end without throwing
WatcherHandled(op) == last'.op = op /\ last'.ok

\* a run that follows a run on the same root, with no change to the project and no
\* other store operation in between, ends with the node and edge counts of that run
C4_SecondRunStep ==
  (ArbokInitReturns /\ runs'.valid /\ runs'.again)
    => /\ Cardinality(nodes') = runs.stats.nodes
       /\ Cardinality(edges') = runs.stats.edges
       /\ runs'.stats = runs.stats

\* C4: full indexing is idempotent on counts: a second arbokInit run in a row on an
\* unchanged project leaves the same number of nodes and the same number of edges as
\* the first.
C4_IdempotentCounts == [][C4_SecondRunStep]_vars

\* a second run in a row has returned, on a project that yields nodes and edges
C4_SecondRunDone ==
  /\ last.op = "init-done"
  /\ runs.valid
  /\ runs.again
  /\ runs.stats.nodes > 0
  /\ runs.stats.edges > 0

\* the file_path values that denote file f, relative to one root or another
KeysOf(f) == {relative(root, f) : root \in Roots}
\* the store's nodes for file f
NodesOf(nodeRows, f) == {n \in nodeRows : n.file_path \in KeysOf(f)}

\* an imports edge from a node of file B to a node foo of file A
ImportsEdge(nodeRows, edgeRows, from, to) ==
  \E e \in edgeRows :
    /\ e.relation = "imports"
    /\ e.source_node_id \in Ids(NodesOf(nodeRows, from))
    /\ \E n \in NodesOf(nodeRows, to) : n.id = e.target_node_id /\ n.name = "foo"

\* a.ts exports foo and b.ts imports it: the run's two passes leave the imports edge
C5_TwoPassStep ==
  (ArbokInitReturns /\ init.root = "/p" /\ disk[FileA] = SrcThree /\ disk[FileB] = SrcImportFoo)
    => ImportsEdge(nodes', edges', FileB, FileA)

\* b.ts is resolved by a change event while no exported foo of another file is in the
\* store: no imports edge leaves the nodes of b.ts
C5_EarlyResolveStep ==
  LET key == relative(configProjectPath, FileB)
  IN (/\ WatcherHandled("change")
      /\ last'.file = FileB
      /\ disk[FileB] = SrcImportFoo
      /\ \A n \in nodes : (n.name = "foo" /\ n.exported) => n.file_path = key)
       => \A e \in edges' :
            e.source_node_id \in IdsOfFile(nodes', key) => e.relation # "imports"

\* C5: import resolution depends on the order of the passes: with file A exporting foo
\* and file B importing foo, a run that inserts the nodes of all files before it
\* resolves any edge produces the imports edge from B to A, and resolving B while
\* the nodes of A are not in the store produces no edge for that import.
C5_OrderSensitivity == [][C5_TwoPassStep /\ C5_EarlyResolveStep]_vars

\* b.ts, which imports foo, has just been resolved by a change event while a.ts on
\* disk exports foo but the store holds no node of a.ts: no edge came of it
C5_ResolvedBeforeNodesExist ==
  /\ last.op = "change"
  /\ last.ok
  /\ last.file = FileB
  /\ disk[FileA] = SrcThree
  /\ disk[FileB] = SrcImportFoo
  /\ IdsOfFile(nodes, relative(configProjectPath, FileB)) # {}
  /\ \A n \in nodes : n.name # "foo"
  /\ edges = {}

\* the project of the inheritance scenario has just been indexed by an arbokInit run
\* that no watcher event or other store operation interleaved
InheritanceProjectIndexed ==
  /\ last.op = "init-done"
  /\ last.ok
  /\ runs.root = "/p"
  /\ disk[FileA] = SrcBase
  /\ disk[FileB] = SrcChild

\* C6: for the project with a.ts = export class Base {} and b.ts = export class Child
\* extends Base {}, a full index run leaves exactly 2 nodes, Base and Child, and exactly
\* 1 edge, with relation extends, source Child and target Base.
C6_CrossFileInheritance ==
  InheritanceProjectIndexed =>
    \E base, child \in nodes :
      /\ nodes = {base, child}
      /\ base.name = "Base" /\ base.kind = "class" /\ base.file_path = "a.ts"
      /\ child.name = "Child" /\ child.kind = "class" /\ child.file_path = "b.ts"
      /\ \E e \in edges :
           /\ edges = {e}
           /\ e.relation = "extends"
           /\ e.source_node_id = child.id
           /\ e.target_node_id = base.id

C6_InheritanceIndexed == InheritanceProjectIndexed /\ Cardinality(edges) = 1

\* a node row without its id and its file_path
Shape(n) == [name |-> n.name, kind |-> n.kind, start_line |-> n.start_line,
             exported |-> n.exported]
\* the declarations of the text of file f
DeclaredIn(f) == extractTypeScriptNodes(parse(disk[f]), NoNode, 0, f.rel)

\* after a handled add/change event for F the store's nodes for F are those extracted
\* from F's content, one row each, and no edge from a node of another file enters them
C7_ChangeStep ==
  WatcherHandled("change") =>
    LET F == last'.file
    IN /\ {Shape(n) : n \in NodesOf(nodes', F)} = {Shape(n) : n \in Range(DeclaredIn(F))}
       /\ Cardinality(NodesOf(nodes', F)) = Len(DeclaredIn(F))
       /\ \A e \in edges' :
            e.target_node_id \in Ids(NodesOf(nodes', F))
              => e.source_node_id \in Ids(NodesOf(nodes', F))

\* C7: after the watcher has processed an add or change event for a supported file F
\* that reads and parses, the store's nodes for F are exactly the nodes extracted from
\* F's current content (none of F's earlier nodes remains), and every edge that had one
\* of F's earlier nodes as source or target is gone.
C7_ChangeReplacesFile == [][C7_ChangeStep]_vars

\* the same, for the events of a watcher whose config.projectPath is the indexed root
C7_ChangeReplacesFileSameRoot ==
  [][(configProjectPath = last'.file.root) => C7_ChangeStep]_vars

\* after a handled unlink event for F the store holds no node of F and no edge that
\* referenced one; nothing was inserted and the nodes of other files are as before
C8_UnlinkStep ==
  WatcherHandled("unlink") =>
    LET F == last'.file
    IN /\ NodesOf(nodes', F) = {}
       /\ \A e \in edges' : /\ e.source_node_id \notin Ids(NodesOf(nodes, F))
                            /\ e.target_node_id \notin Ids(NodesOf(nodes, F))
       /\ nodes' \subseteq nodes
       /\ edges' \subseteq edges
       /\ nodes' \ NodesOf(nodes', F) = nodes \ NodesOf(nodes, F)

\* C8: after the watcher has processed an unlink event for a supported file F the store
\* holds no node of F and no edge that referenced a node of F; the event extracts and
\* inserts nothing, and the nodes of every other file are unchanged.
C8_UnlinkRemovesFile == [][C8_UnlinkStep]_vars

\* the same, for the events of a watcher whose config.projectPath is the indexed root
C8_UnlinkRemovesFileSameRoot ==
  [][(configProjectPath = last'.file.root) => C8_UnlinkStep]_vars

\* an event for a file with an unsupported extension changes nothing
C9_UnsupportedStep ==
  /\ \A ext \in {".go", ".rs"} : ~isSupportedExtension(ext)
  /\ (/\ last'.op \in {"change", "unlink"}
      /\ ~isSupportedExtension(extname(last'.file.rel)))
       => UNCHANGED <<nodes, edges, pendingChanges, memoryBankUpdateTimer, timeouts>>

\* C9: a watcher add, change or unlink event for a file whose extension is none of
\* .ts/.tsx/.js/.jsx/.py (.go and .rs included) is ignored: nodes, edges, the
\* pending-change counter and the debounce timer are unchanged by it.
C9_UnsupportedIgnored == [][C9_UnsupportedStep]_vars

\* an unlink event for n.go has just been handled while the store held nodes and the
\* debounce timer was armed
C9_GoEventIgnored ==
  /\ last.op = "unlink"
  /\ last.file = FileGo
  /\ nodes # {}
  /\ memoryBankUpdateTimer = "armed"
  /\ pendingChanges > 0

C10_DebounceStep ==
  /\ pendingChanges' \in 0..(MEMORY_BANK_UPDATE_THRESHOLD - 1)
  /\ (last'.op \in {"change", "unlink"} /\ last'.ok) =>
       IF pendingChanges + 1 >= MEMORY_BANK_UPDATE_THRESHOLD
       THEN /\ last'.regen
            /\ pendingChanges' = 0
            /\ memoryBankUpdateTimer' # "armed"
       ELSE /\ ~last'.regen
            /\ pendingChanges' = pendingChanges + 1
            /\ memoryBankUpdateTimer' = "armed"
  /\ last'.regen =>
       \/ last'.op \in {"change", "unlink"} /\ last'.ok
       \/ last'.op = "timer" /\ pendingChanges > 0

\* C10: every handled watcher mutation adds one to the pending-change counter and
\* (re)arms the debounce timer; the mutation that makes the counter reach the threshold
\* (5) triggers the regeneration within that event, resets the counter to 0 and leaves
\* no timer armed; so the counter is in 0..4 between events, and a regeneration never
\* runs with a counter of 0.
C10_DebounceThreshold == [][C10_DebounceStep]_vars

\* the fifth pending change has just triggered the regeneration
C10_ThresholdReached ==
  /\ last.op = "change"
  /\ last.regen
  /\ pendingChanges = 0
  /\ memoryBankUpdateTimer = "null"

\* --------------------------------------------------------------------- C11
\* a handler has just recorded a mutation (it reached scheduleMemoryBankUpdate)
MutationRecorded == last.op \in {"change", "unlink"} /\ last.ok
\* the watcher is no longer running: stopWatcher has been called
WatcherStopped == stopping \/ watcher = NoWatcher

\* C11: every mutation a watcher handler records is followed by a regeneration
\* (arbokUpdateMemory is called), at once when the counter reaches the threshold and
\* else when the debounce timer fires, unless the watcher is stopped first; the timer
\* callback is assumed to run once it stays due.
C11_StalenessBounded == MutationRecorded ~> (last.regen \/ WatcherStopped)

\* the debounce timer has fired and regenerated below the threshold
C11_TimerRegenerated ==
  /\ last.op = "timer"
  /\ last.regen
  /\ watcher # NoWatcher

\* --------------------------------------------------------------------- C12
\* the number of open chokidar subscriptions
OpenSubscriptions == Cardinality({<<r, i>> \in Roots \X (1..3) : i <= subscriptions[r]})

\* at most one subscription is open, so an event is delivered to one handler run
C12_OneSubscription ==
  /\ OpenSubscriptions <= 1
  /\ \A f \in AllFiles : subscriptions[f.root] <= 1

\* a step in which arbokInit calls startWatcher while a watcher exists changes nothing
\* of the watcher
C12_SecondStartStep ==
  (ArbokInitReturns /\ watcher # NoWatcher) =>
    UNCHANGED <<watcher, subscriptions, watcherProjectPath, pendingChanges,
                memoryBankUpdateTimer, timeouts, stopping>>

\* C12: startWatcher called while a watcher is running opens no second subscription
\* and changes no watcher state; at most one subscription is open at any time, so each
\* file event runs its handler once.
C12_StartIdempotent == []C12_OneSubscription /\ [][C12_SecondStartStep]_vars

\* an index run on another root has returned while the watcher of an earlier run was
\* running: its startWatcher call was the no-op
C12_SecondStartIgnored ==
  /\ last.op = "init-done"
  /\ runs.valid
  /\ watcher # NoWatcher
  /\ runs.root # watcher
  /\ OpenSubscriptions = 1

\* --------------------------------------------------------------------- C13
\* with no watcher (never started, or stopped and not started again) no subscription
\* is open and no debounce timer is armed
C13_StoppedState ==
  watcher = NoWatcher => (OpenSubscriptions = 0 /\ memoryBankUpdateTimer # "armed")

\* stopWatcher completes with the watcher gone; and while no timer is armed, only a
\* handler run that records a change (which takes a started watcher) regenerates or
\* arms the timer
C13_Step ==
  /\ last'.op = "stop" => (watcher' = NoWatcher /\ ~stopping')
  /\ (memoryBankUpdateTimer # "armed" /\ (last'.regen \/ memoryBankUpdateTimer' = "armed"))
       => (last'.op \in {"change", "unlink"} /\ last'.ok /\ watcher # NoWatcher)

\* C13: after stopWatcher completes the subscription is closed and no debounce timer
\* is armed; no regeneration runs until the watcher has been started again and a
\* handler has recorded a new change, whatever the number of changes pending at the
\* stop.
C13_StopQuiesces == []C13_StoppedState /\ [][C13_Step]_vars

\* stopWatcher has completed with changes pending
C13_StoppedWithPending ==
  /\ last.op = "stop"
  /\ pendingChanges > 0
  /\ watcher = NoWatcher

\* --------------------------------------------------------------------- C14
C14_ReturnStep ==
  ArbokInitReturns => (watcher' = init.root /\ subscriptions'[init.root] = 1)

\* C14: whenever an index run arbokInit(rootPath) returns its summary, a watcher is
\* running and is rooted at rootPath, whatever index runs came before.
C14_WatcherRootedAtRun == [][C14_ReturnStep]_vars

\* the same for the runs that find no watcher: those start one on their own root
C14_WatcherRootedFirstStart ==
  [][(ArbokInitReturns /\ watcher = NoWatcher) => (watcher' = init.root /\ subscriptions'[init.root] = 1)]_vars

\* --------------------------------------------------------------------- C15
\* a file of the scan that pass 1 gives up on: its read throws, or parseFile
\* returns null for it
BadFile(f) ==
  /\ isSupportedExtension(extname(f.rel))
  /\ (readFileSyncThrows(disk[f]) \/ parse(disk[f]) = NoNode)
\* the files of a scan without the bad ones
RECURSIVE GoodFiles(_, _)
GoodFiles(files, i) ==
  IF i > Len(files) THEN <<>>
  ELSE (IF BadFile(files[i]) THEN <<>> ELSE <<files[i]>>) \o GoodFiles(files, i + 1)

\* a run returns the summary of a store that holds what the two passes over the other
\* files of the scan, in the order of the scan, give
C15_RunStep ==
  (ArbokInitReturns /\ init.clean) =>
    /\ \E files \in scanSourceFiles(init.root) :
         LET rest == indexFiles(GoodFiles(files, 1), init.root, nodes, edges)
         IN nodes' = rest.nodes /\ edges' = rest.edges
    /\ last'.op = "init-done"
    /\ last'.result = getCounts(nodes', edges')

C16_ParseFileGuard ==
  last.op = "parseFile" =>
    /\ (~parserInitialized \/ init.pc \in {"parsers", "parsers-py"})
         => (last.result = "throws" /\ ~last.ok)
    /\ (parserInitialized /\ last.path \notin {".ts", ".tsx", ".js", ".jsx", ".py"})
         => (last.result = "null" /\ last.ok)
    /\ last.result = "tree" => parserInitialized

\* parseFile has thrown for a .ts text while initParsers was in flight with the
\* TypeScript parser set
C16_ThrewWhileLoading ==
  /\ last.op = "parseFile"
  /\ last.path = ".ts"
  /\ last.result = "throws"
  /\ init.pc = "parsers-py"
  /\ tsParser

\* --------------------------------------------------------------------- C17
\* a step made with no project path configured and no connection open
C17_UnconfiguredStep ==
  (~isProjectConfigured /\ db = NoDb) =>
    /\ db' = NoDb
    /\ dbFiles' = dbFiles
    /\ UNCHANGED <<nodes, edges>>
    /\ last'.op \in {"getDatabase", "init-clear", "searchNodes"} => ~last'.ok

\* C17: with no project path configured and no connection open, getDatabase - and so
\* every query function, each of which calls it first - throws, opens no connection,
\* creates no database file and leaves the module state at 'no connection'.
C17_FailFast == [][C17_UnconfiguredStep]_vars

\* a query function and arbokInit's clearDatabase have failed that way
C17_QueryFailed ==
  /\ last.op = "getDatabase"
  /\ ~last.ok
  /\ configProjectPath = NoPath
  /\ db = NoDb
  /\ dbFiles = {}

\* --------------------------------------------------------------------- C18
\* a call of arbok_init_index goes on to arbokInit
C18_Proceeds == init.pc = "idle" /\ init'.tool = "arbok_init_index"

\* a step of arbok_init_index: the call goes on to arbokInit only with execute true
\* and a store that holds no node, a run in progress is an Act Mode run, and a call
\* that answers at once changes neither the store nor the watcher
C18_Step ==
  /\ C18_Proceeds => (init'.execute /\ getCounts(nodes, edges).nodes = 0)
  /\ init.tool = "arbok_init_index" => init.execute
  /\ (init.pc = "idle" /\ last'.op = "arbok_init_index")
       => UNCHANGED <<nodes, edges, watcher, subscriptions, watcherProjectPath>>

\* C18: arbokInitIndex clears, re-indexes or starts the watcher only when execute is
\* true and the index is missing or holds zero nodes; when the index holds at least
\* one node, or in Plan Mode, nodes and edges are unchanged and no watcher is started.
C18_InitOnlyIfMissing == [][C18_Step]_vars

\* the same when the call's projectPath is the configured project path
C18_InitOnlyIfMissingSameRoot ==
  [][(C18_Proceeds /\ init'.root # configProjectPath) \/ C18_Step]_vars

\* arbok_init_index has skipped a store that holds nodes, and has answered 'missing'
\* in Plan Mode
C18_Skipped ==
  /\ last.op = "arbok_init_index"
  /\ last.result.status = "exists"
  /\ last.result.execute
  /\ getCounts(nodes, edges).nodes > 0

\* an Act Mode arbok_init_index run has indexed the project and thrown
C18_VerificationThrew ==
  /\ last.op = "init-done"
  /\ ~last.ok
  /\ runs.valid
  /\ getCounts(nodes, edges).nodes > 0

\* --------------------------------------------------------------------- C19
\* a step of an arbok_update_index call made with execute absent or false
C19_DryRunStep ==
  \/ init.tool = "arbok_update_index" /\ ~init.execute
  \/ init'.tool = "arbok_update_index" /\ ~init'.execute

\* C19: arbokInit (arbok_update_index) called with execute absent or false performs no
\* operation: it does not clear the store, insert a node or an edge, or start the
\* watcher.
C19_DryRunByDefault ==
  [][C19_DryRunStep
       => UNCHANGED <<nodes, edges, watcher, subscriptions, watcherProjectPath>>]_vars

\* --------------------------------------------------------------------- C20
\* the rows of the last search, their names ascending and no more than the limit
C20_OrderedAndCapped(rows) ==
  /\ Len(rows) <= SEARCH_LIMIT
  /\ \A i \in 1..Len(rows) : rows[i] \in nodes
  /\ \A i, j \in 1..Len(rows) :
       i < j => (rows[i] # rows[j] /\ NameLeq(Chars(rows[i].name), Chars(rows[j].name)))

\* the rows of the last search have the kind asked for
C20_OfKind(rows, kind) == kind # "" => \A i \in 1..Len(rows) : rows[i].kind = kind

\* C20: symbol search returns only nodes whose name contains the query as a substring
\* and, when a kind filter is given, only nodes of that kind; the result is ordered by
\* name ascending and holds at most 100 nodes.
C20_SearchBySubstring ==
  (last.op = "searchNodes" /\ last.ok) =>
    /\ \A i \in 1..Len(last.result.rows) :
         contains(Chars(last.result.rows[i].name), Chars(last.path))
    /\ C20_OfKind(last.result.rows, last.result.kind)
    /\ C20_OrderedAndCapped(last.result.rows)

\* what the search does return: when the query holds neither % nor _, exactly the
\* nodes of the kind whose name contains it with the case of ASCII letters ignored
C20_SearchFoldedSubstring ==
  (last.op = "searchNodes" /\ last.ok) =>
    LET rows == last.result.rows
        query == Chars(last.path)
        plain == \A i \in 1..Len(query) : query[i] \notin {Percent, Underscore}
    IN /\ C20_OfKind(rows, last.result.kind)
       /\ C20_OrderedAndCapped(rows)
       /\ plain => Range(rows) =
            {n \in nodes : /\ containsFolded(Chars(n.name), query)
                           /\ last.result.kind # "" => n.kind = last.result.kind}

\* a search for "_" has returned a node
C20_WildcardMatched ==
  /\ last.op = "searchNodes"
  /\ last.ok
  /\ last.path = "_"
  /\ Len(last.result.rows) > 1

\* --------------------------------------------------------------------- C21
\* C21: the steps of one full index run are strictly ordered: the clear precedes every
\* insert, no edge batch is inserted (and no file resolved) before the node batch of
\* every file has been inserted, only files that produced at least one node in pass 1
\* are resolved in pass 2, and the watcher is started only after the last edge batch.
C21_RunOrdered ==
  last.op = "init-done" =>
    LET s == last.steps
        n == Len(s)
        pass2 == {i \in 1..n : s[i].op \in {"resolveEdges", "insertEdges"}}
    IN /\ n >= 2
       /\ \A i \in 1..n : s[i].op = "clearDatabase" <=> i = 1
       /\ \A i \in 1..n : s[i].op = "startWatcher" <=> i = n
       /\ \A i \in pass2 : \A j \in 1..n : s[j].op = "insertNodes" => j < i
       /\ \A i \in pass2 :
            \E j \in 1..n : /\ s[j].op = "insertNodes"
                            /\ s[j].file = s[i].file
                            /\ s[j].rows >= 1

\* a run over three files has inserted the nodes of two, then an edge batch, and has
\* resolved nothing for the third
C21_TwoFilesThenEdges ==
  /\ last.op = "init-done"
  /\ disk[FileGo] # Missing
  /\ Cardinality({i \in 1..Len(last.steps) : last.steps[i].op = "insertNodes"}) = 2
  /\ \E i \in 1..Len(last.steps) :
       last.steps[i].op = "insertEdges" /\ last.steps[i].rows >= 1
  /\ Cardinality({i \in 1..Len(last.steps) : last.steps[i].op = "resolveEdges"}) = 2

\* --------------------------------------------------------------------- C22
\* the syntax node types that declare a symbol, and the kind each declares
DeclarationKind(type) ==
  CASE type \in {"function_declaration", "function_definition"} -> "function"
    [] type \in {"class_declaration", "class_definition"} -> "class"
    [] type = "interface_declaration" -> "interface"
    [] type = "type_alias_declaration" -> "type_alias"
    [] type = "enum_declaration" -> "enum"
    [] type = "method_definition" -> "method"
    [] type = "variable_declarator" -> "variable"
    [] OTHER -> ""

\* the declaration syntax nodes of a tree, in document order: name, kind, line and
\* whether the name is an identifier or a type_identifier
RECURSIVE Declarations(_)
RECURSIVE DeclarationsOfChildren(_, _)
Declarations(node) ==
  LET names == {i \in 1..Len(node.children) :
                  node.children[i].type \in {"identifier", "type_identifier",
                                             "property_identifier"}}
      nameNode == node.children[CHOOSE i \in names : \A j \in names : i <= j]
      own == IF DeclarationKind(node.type) = "" \/ names = {} THEN <<>>
             ELSE <<[name |-> nameNode.text, kind |-> DeclarationKind(node.type),
                     start_line |-> node.row + 1,
                     plain |-> nameNode.type # "property_identifier"]>>
  IN own \o DeclarationsOfChildren(node, 1)

DeclarationsOfChildren(node, i) ==
  IF i > Len(node.children) THEN <<>>
  ELSE Declarations(node.children[i]) \o DeclarationsOfChildren(node, i + 1)

\* how many records the last extractNodes call emitted for a declaration
Emitted(d) ==
  Cardinality({i \in 1..Len(last.result.nodes) :
                 /\ last.result.nodes[i].name = d.name
                 /\ last.result.nodes[i].kind = d.kind
                 /\ last.result.nodes[i].start_line = d.start_line})

RECURSIVE HasType(_, _)
HasType(node, type) ==
  \/ node.type = type
  \/ \E i \in 1..Len(node.children) : HasType(node.children[i], type)

\* C22: extractNodes emits exactly one Node record per declaration syntax node, for
\* every syntax tree of a supported language: an exported TS/JS declaration is
\* recorded once, and a decorated Python function or class is recorded once.
C22_OneRecordPerDeclaration ==
  last.op = "extractNodes" =>
    LET decls == Declarations(last.result.tree)
    IN /\ Len(last.result.nodes) = Len(decls)
       /\ \A i \in 1..Len(decls) : Emitted(decls[i]) = 1

\* what does hold: a TS/JS declaration named by an identifier is recorded once, export
\* wrapper or not, and one named by a property_identifier never; a Python definition
\* is recorded once in a module without decorators
C22_OneRecordWithoutDecorators ==
  last.op = "extractNodes" =>
    LET decls == Declarations(last.result.tree)
    IN HasType(last.result.tree, "decorated_definition")
       \/ \A i \in 1..Len(decls) : Emitted(decls[i]) = (IF decls[i].plain THEN 1 ELSE 0)

\* extractNodes has returned two records for the one decorated function of a module
C22_DecoratedTwice ==
  /\ last.op = "extractNodes"
  /\ last.result.tree = Module(<<Decorated(PyFunc("foo", "", 1), 0)>>)
  /\ Len(last.result.nodes) = 2

\* --------------------------------------------------------------------- C23
\* the records the last extractNodes call emitted for the i-th statement of a TS/JS
\* program whose declaration has the statements before it as preceding siblings
RecordsOfStatement(i) ==
  {r \in Range(last.result.nodes) :
     /\ r.start_line = i
     /\ r.kind # "method"
     /\ last.result.tree.children[i].type # "export_statement"}

\* C23: doc-comment lookup stops at the nearest preceding sibling: when that sibling
\* is not a comment, or is a comment without a doc-comment marker, doc_comment is
\* null, even when a doc comment exists two or more siblings further back.
C23_NearestSiblingOnly ==
  (last.op = "extractNodes" /\ last.path = "a.ts") =>
    \A i \in 1..Len(last.result.tree.children) :
      \A r \in RecordsOfStatement(i) :
        r.doc_comment = getDocCommentNearest(last.result.tree, i)

\* what does hold: doc_comment is the nearest doc comment among all the preceding
\* siblings, whatever stands between it and the declaration
C23_NearestDocCommentAtAnyDistance ==
  (last.op = "extractNodes" /\ last.path = "a.ts") =>
    \A i \in 1..Len(last.result.tree.children) :
      \A r \in RecordsOfStatement(i) :
        LET stmts == last.result.tree.children
            docs == {j \in 1..(i - 1) : /\ stmts[j].type = "comment"
                                        /\ isDocCommentText(stmts[j].text)}
        IN r.doc_comment =
             IF docs = {} THEN NoDoc
             ELSE stmts[CHOOSE j \in docs : \A k \in docs : k <= j].text

\* a function declared right after a statement, two siblings after a doc comment, has
\* got that doc comment
C23_DocCommentTwoBack ==
  /\ last.op = "extractNodes"
  /\ last.result.tree =
       Program(<<Comment("/** d */", 0), ExprStmt(1), FuncDecl("foo", 2)>>)
  /\ last.result.nodes[1].doc_comment = "/** d */"

\* --------------------------------------------------------------------- C24
\* the names the statements of a file import
ImportedNamesOf(stmt) ==
  IF stmt.type = "import_from_statement"
  THEN Range(extractImportedNames(childForFieldName(stmt, "name")))
  ELSE IF stmt.type = "import_statement"
  THEN Range(importClauseNames(stmt, 1))
         \cup {c.text : c \in {d \in Range(stmt.children) : d.type = "dotted_name"}}
  ELSE {}
ImportedNames(tree) == UNION {ImportedNamesOf(stmt) : stmt \in Range(tree.children)}

\* the imports edges the last resolveEdges call returned
ImportsEdges == {x \in Range(last.result.edges) : x.relation = "imports"}

\* a store row an import of that name into file F may point to
ImportTarget(t, name, F, needExported) ==
  /\ t.name = name
  /\ t.file_path # F
  /\ needExported => t.exported

\* the ends of the imports edges of one resolveEdges call, with or without the
\* exported flag required of the target
ImportsEdgesRight(needExported) ==
  LET F == last.path
      fileNodes == Range(last.result.fileNodes)
      allNodes == last.result.allNodes
      names == ImportedNames(last.result.tree)
  IN /\ \A x \in ImportsEdges :
          /\ \E s \in fileNodes : s.id = x.source_node_id /\ s.exported /\ s.file_path = F
          /\ \E t \in allNodes : \E name \in names :
               t.id = x.target_node_id /\ ImportTarget(t, name, F, needExported)
     /\ (\A s \in fileNodes : ~s.exported) => ImportsEdges = {}
     /\ \A name \in names :
          (\A t \in allNodes : ~ImportTarget(t, name, F, needExported)) =>
            \A x \in ImportsEdges : \A t \in allNodes :
              t.id = x.target_node_id => t.name # name

\* C24: every imports edge produced when resolving file F (TS/JS or Python) has as
\* source an exported node of F and as target a store node whose name is the imported
\* name, whose exported flag is true and whose file path differs from F; when F has no
\* exported node no imports edge is produced, and an imported name without such a
\* target produces no edge.
C24_ImportsEdgeEnds ==
  last.op = "resolveEdges" => ImportsEdgesRight(TRUE)

\* what does hold: the same for TS/JS files, and for Python files the same without
\* the exported flag of the target
C24_ImportsEdgeEndsPerLanguage ==
  last.op = "resolveEdges" => ImportsEdgesRight(last.path = "b.ts")

\* a Python module that declares foo and imports I has got an imports edge to the
\* interface I of a.ts, which is not exported
C24_PythonImportOfUnexported ==
  /\ last.op = "resolveEdges"
  /\ last.path = "m.py"
  /\ \E x \in ImportsEdges : \E t \in last.result.allNodes :
       t.id = x.target_node_id /\ t.name = "I" /\ ~t.exported

\* a TS file that exports bar and imports foo and I has got one imports edge, to foo
C24_TsImportOfExportedOnly ==
  /\ last.op = "resolveEdges"
  /\ last.path = "b.ts"
  /\ last.result.allNodes = OtherRows \cup Range(last.result.fileNodes)
  /\ ImportedNames(last.result.tree) = {"foo", "I"}
  /\ Cardinality(ImportsEdges) = 1

\* --------------------------------------------------------------------- C25
\* one call of ensureDatabaseAt(p)
C25_EnsureStep ==
  last'.op = "ensureDatabaseAt" =>
    LET p == last'.path
    IN /\ db' \in {NoDb, p}
       /\ db \notin {NoDb, p} =>
            /\ db' = NoDb
            /\ isProjectConfigured =>
                 getDatabase([db |-> db', files |-> dbFiles']).db = configProjectPath
       /\ db \in {NoDb, p} => db' = db
       /\ UNCHANGED <<dbFiles, nodes, edges, configProjectPath>>

\* C25: after ensureDatabaseAt(p) returns no connection is open at a path other than
\* p: a connection open at a different path is closed, so that the next getDatabase
\* re-creates it at the current config.dbPath; a connection already open at p, or the
\* absence of any connection, is left unchanged.
C25_NoConnectionElsewhere == [][C25_EnsureStep]_vars

\* ensureDatabaseAt has closed a connection that was open under another root
C25_StaleConnectionClosed ==
  /\ last.op = "ensureDatabaseAt"
  /\ last.result \notin {NoDb, last.path}
  /\ db = NoDb

\* --------------------------------------------------------------------- C26
\* a node and an edge without their ids: file, name and kind; the two ends and the
\* relation
Keyed(n) == [file_path |-> n.file_path, name |-> n.name, kind |-> n.kind]
KeyedEdge(nodeRows, x) ==
  [source |-> Keyed(CHOOSE n \in nodeRows : n.id = x.source_node_id),
   target |-> Keyed(CHOOSE n \in nodeRows : n.id = x.target_node_id),
   relation |-> x.relation]
KeyedNodes(nodeRows) == {Keyed(n) : n \in nodeRows}
KeyedEdges(nodeRows, edgeRows) == {KeyedEdge(nodeRows, x) : x \in edgeRows}

\* what full index runs on the files as they are now leave in an empty store
Rebuilds ==
  {indexFiles(files, configProjectPath, {}, {}) : files \in scanSourceFiles(configProjectPath)}

\* the store equals a rebuild: the same records and as many of them
AgreesWith(nodeRows, edgeRows, rebuilt) ==
  /\ KeyedNodes(nodeRows) = KeyedNodes(rebuilt.nodes)
  /\ KeyedEdges(nodeRows, edgeRows) = KeyedEdges(rebuilt.nodes, rebuilt.edges)
  /\ Cardinality(nodeRows) = Cardinality(rebuilt.nodes)
  /\ Cardinality(edgeRows) = Cardinality(rebuilt.edges)

\* the store equals a rebuild but for the records of one file and the edges at them
Without(keyedNodes, key) == {n \in keyedNodes : n.file_path # key}
Apart(keyedEdges, key) ==
  {x \in keyedEdges : x.source.file_path # key /\ x.target.file_path # key}
AgreesExcept(nodeRows, edgeRows, rebuilt, key) ==
  /\ Without(KeyedNodes(nodeRows), key) = Without(KeyedNodes(rebuilt.nodes), key)
  /\ Cardinality(Without(nodeRows, key)) = Cardinality(Without(rebuilt.nodes, key))
  /\ Apart(KeyedEdges(nodeRows, edgeRows), key)
       = Apart(KeyedEdges(rebuilt.nodes, rebuilt.edges), key)

\* the step is the watcher handling an event for file f that tells the truth about
\* the file, while no index run is under way and the watcher keys rows as the run did
EventHandled(f) ==
  /\ last'.op \in {"change", "unlink"}
  /\ last'.file = f
  /\ isSupportedExtension(extname(f.rel))
  /\ (last'.op = "unlink") <=> (disk[f] = Missing)
  /\ init.pc = "idle"
  /\ parserInitialized
  /\ configProjectPath = f.root

\* the watcher handles an event for a file that is the only one the store may be
\* behind on: afterwards the store equals a rebuild
C26_EventStep ==
  \A f \in AllFiles : \A rebuilt \in Rebuilds :
    (EventHandled(f) /\ AgreesExcept(nodes, edges, rebuilt, f.rel))
      => AgreesWith(nodes', edges', rebuilt)

\* C26: incremental updates agree with a full rebuild: after the watcher has
\* processed the events for the files that changed, the nodes and edges of the store
\* (by file, name, kind and relation) are those a full index run on the files would
\* produce; re-processing an unchanged file leaves the edges other files have into its
\* nodes in place.
C26_IncrementalIsRebuild == [][C26_EventStep]_vars

\* what does hold: the nodes are those of a rebuild, and the edges are those of a
\* rebuild less the edges that other files have into the file of the event
EdgesInto(keyedEdges, key) ==
  {x \in keyedEdges : x.source.file_path # key /\ x.target.file_path = key}
C26_EventStepLosesEdgesInto ==
  \A f \in AllFiles : \A rebuilt \in Rebuilds :
    (EventHandled(f) /\ AgreesExcept(nodes, edges, rebuilt, f.rel))
      => /\ KeyedNodes(nodes') = KeyedNodes(rebuilt.nodes)
         /\ Cardinality(nodes') = Cardinality(rebuilt.nodes)
         /\ KeyedEdges(nodes', edges')
              = KeyedEdges(rebuilt.nodes, rebuilt.edges)
                  \ EdgesInto(KeyedEdges(rebuilt.nodes, rebuilt.edges), f.rel)
C26_IncrementalLosesEdgesInto == [][C26_EventStepLosesEdgesInto]_vars

\* a change event for a file that did not change has removed an edge
C26_UnchangedFileLostEdge ==
  /\ last.op = "change"
  /\ last.ok
  /\ last.removed
  /\ \E rebuilt \in Rebuilds : KeyedNodes(nodes) = KeyedNodes(rebuilt.nodes)
  /\ edges = {}

\* --------------------------------------------------------------------- C27
\* one node record per declaration: no two rows for the same file, name, kind and line
OneRecordEach(nodeRows) ==
  \A n \in nodeRows : \A m \in nodeRows :
    (Keyed(n) = Keyed(m) /\ n.start_line = m.start_line) => n = m

\* a watcher handler ran at a suspension point of the arbokInit call that returns
C27_RacedReturnStep ==
  (ArbokInitReturns /\ ~init.clean) => OneRecordEach(nodes')

\* a watcher handler never runs inside the two passes: it leaves arbokInit where it
\* was suspended, and the step that ends the scan runs both passes to the end
C27_PassesStep ==
  /\ last'.op \in {"change", "unlink"} => init'.pc = init.pc
  /\ ArbokInitReturns =>
       \E i \in 1..Len(last'.steps) :
         /\ last'.steps[i].op = "startWatcher"
         /\ i = Len(last'.steps)
         /\ \A j \in 1..(i - 1) :
              last'.steps[j].op \in {"clearDatabase", "insertNodes", "resolveEdges", "insertEdges"}

\* C27: a full re-index and the watcher cannot corrupt each other's result: when a
\* watcher event for file F is delivered at a suspension point of arbokInit (between
\* clearing the store and pass 1, say), the store holds exactly one node record per
\* declaration of F when arbokInit returns, and no watcher handler has run between
\* the start of pass 1 and the end of pass 2.
C27_RaceLeavesOneRecordEach == [][C27_RacedReturnStep /\ C27_PassesStep]_vars

\* what does hold: the passes are not interleaved with handlers, and a run no handler
\* ran into leaves one record per declaration
C27_CleanReturnStep ==
  (ArbokInitReturns /\ init.clean) => OneRecordEach(nodes')
C27_OneRecordEachWithoutRace == [][C27_CleanReturnStep /\ C27_PassesStep]_vars

\* arbokInit has returned with two records for one declaration, after a change event
\* was handled between its clearDatabase and its first pass
C27_DuplicatedByRace ==
  /\ last.op = "init-done"
  /\ ~last.ok
  /\ ~OneRecordEach(nodes)

\* --------------------------------------------------------------------- C28
\* the watcher subscribed by arbokInit(root) / startWatcher(root) keys the rows of a
\* file under that root as the scan of that root does
C28_KeysAgree ==
  \A f \in AllFiles :
    Delivers(f) => relative(configProjectPath, f) = relative(f.root, f)

\* a handled change event leaves no row for the file under another key than the one
\* the scan of its root uses
C28_ChangeStep ==
  WatcherHandled("change") =>
    \A n \in NodesOf(nodes', last'.file) : n.file_path = relative(last'.file.root, last'.file)

\* C28: the watcher keys a file's records by the same project-relative path as the
\* full scan: for every root passed to arbokInit/startWatcher and every file under
\* it, the path the watcher deletes and re-inserts the file's records under is the
\* path the scan stored them under, so a change event never leaves the scan's records
\* for the file in the store next to the new ones.
C28_WatcherKeysAsScan == []C28_KeysAgree /\ [][C28_ChangeStep]_vars

\* what does hold: the same when the root passed to arbokInit is config.projectPath
C28_WatcherKeysAsScanSameRoot ==
  /\ [](\A f \in AllFiles :
         (Delivers(f) /\ configProjectPath = f.root)
           => relative(configProjectPath, f) = relative(f.root, f))
  /\ [][(configProjectPath = last'.file.root) => C28_ChangeStep]_vars

\* a change event has left the scan's record of a.ts next to the record the handler
\* inserted for the same declaration under another path
C28_TwoKeysForOneFile ==
  /\ last.op = "change"
  /\ last.ok
  /\ last.file = FileA
  /\ \E n \in nodes : \E m \in nodes :
       /\ n.file_path = relative("/p", FileA)
       /\ m.file_path = relative(configProjectPath, FileA)
       /\ n.file_path # m.file_path
       /\ n.name = m.name

\* --------------------------------------------------------------------- C29
\* at most one timeout is pending, it is the one the handle holds, and it is pending
\* only while 1 to 4 changes are
C29_DebounceState ==
  /\ timeouts \in {0, 1}
  /\ (timeouts = 1) <=> (memoryBankUpdateTimer = "armed")
  /\ timeouts = 1 => pendingChanges \in 1..(MEMORY_BANK_UPDATE_THRESHOLD - 1)

\* the timer fires: a change is pending, the regeneration runs once and the counter
\* and the timer are reset
C29_TimerStep ==
  last'.op = "timer" =>
    /\ pendingChanges >= 1
    /\ last'.regen
    /\ pendingChanges' = 0
    /\ memoryBankUpdateTimer' = "null"
    /\ timeouts' = 0

\* C29: in every reachable state at most one debounce timer is armed, and whenever a
\* timer is armed the pending-change counter is between 1 and 4; a timer that fires
\* therefore finds at least one pending change and triggers exactly one regeneration.
C29_DebounceInvariant == []C29_DebounceState /\ [][C29_TimerStep]_vars

\* the one pending timeout has fired and regenerated; no timeout is pending and the
\* handle is null, while the watcher is still subscribed
C29_OnlyTimerFired ==
  /\ last.op = "timer"
  /\ last.regen
  /\ pendingChanges = 0
  /\ timeouts = 0
  /\ memoryBankUpdateTimer = "null"
  /\ watcher # NoWatcher
  /\ ~stopping

\* --------------------------------------------------------------------- C30
\* the file of the event cannot be read, or parseFile gives no tree for it
CannotReadOrParse(f) ==
  \/ readFileSyncThrows(disk[f])
  \/ parseFile(disk[f], extname(f.rel)) \in {NoNode, Throws}

\* an add/change event for a supported file that cannot be read or parsed changes
\* neither table, the counter, the timer nor the subscription
C30_SkippedStep ==
  \A f \in AllFiles :
    (/\ last'.op = "change"
     /\ last'.file = f
     /\ isSupportedExtension(extname(f.rel))
     /\ CannotReadOrParse(f))
      => /\ ~last'.ok
         /\ ~last'.regen
         /\ UNCHANGED <<nodes, edges, pendingChanges, memoryBankUpdateTimer, timeouts,
                        watcher, subscriptions, stopping>>

\* C30: a watcher add/change event whose file cannot be read or fails to parse is
\* skipped without side effects: the nodes and edges stored for that file and for all
\* other files are unchanged, the pending-change counter is not incremented, the
\* debounce timer is not restarted, and the watcher goes on handling later events.
C30_BadFileSkipped == [][C30_SkippedStep]_vars

\* a change event for a file that became unreadable or unparsable was skipped while
\* the store held the file's earlier rows and an edge, with a timer armed
C30_SkippedWithRowsAndTimer ==
  /\ last.op = "change"
  /\ ~last.ok
  /\ disk[last.file] \in {Unreadable, Unparsable}
  /\ NodesOf(nodes, last.file) # {}
  /\ edges # {}
  /\ memoryBankUpdateTimer = "armed"
  /\ Delivers(last.file)

====
